---- MODULE Spec2Model ----
(***************************************************************************)
(* A model of ansible_risk_insight/dependency_dir_preparator.py:           *)
(* DependencyDirPreparator, its metadata store (download_meta.json), its   *)
(* log parsers and the file system and external tools it drives.           *)
(*                                                                         *)
(* A Python str is a sequence of tokens.  The characters the code splits   *)
(* or matches on ("/", ".", "-", " ") are tokens of their own; every other *)
(* token stands for a maximal run of other characters.  "" is <<>>.        *)
(* A value that may be None is a sequence of length 0 (None) or 1.         *)
(***************************************************************************)
EXTENDS Integers, Sequences, FiniteSets, TLC

\* ------------------------------------------------------------------------
\* str operations
\* ------------------------------------------------------------------------

Last(s) == s[Len(s)]

StartsWith(s, p) == Len(p) <= Len(s) /\ SubSeq(s, 1, Len(p)) = p

EndsWith(s, p) == Len(p) <= Len(s) /\ SubSeq(s, Len(s) - Len(p) + 1, Len(s)) = p

\* p in s
Contains(s, p) == \E i \in 1..(Len(s) - Len(p) + 1) : SubSeq(s, i, i + Len(p) - 1) = p

\* s.split(sep), sep one character
RECURSIVE Split(_, _)
Split(s, sep) ==
    IF \A i \in 1..Len(s) : s[i] # sep
    THEN <<s>>
    ELSE LET k == CHOOSE i \in 1..Len(s) : s[i] = sep /\ \A j \in 1..(i - 1) : s[j] # sep
         IN  <<SubSeq(s, 1, k - 1)>> \o Split(SubSeq(s, k + 1, Len(s)), sep)

\* s.rsplit(sep, 1)[0]
RSplit1Head(s, sep) ==
    IF \A i \in 1..Len(s) : s[i] # sep
    THEN s
    ELSE LET k == CHOOSE i \in 1..Len(s) : s[i] = sep /\ \A j \in (i + 1)..Len(s) : s[j] # sep
         IN  SubSeq(s, 1, k - 1)

\* s.replace(old, new), old non-empty
RECURSIVE Replace(_, _, _)
Replace(s, old, new) ==
    IF s = <<>> THEN <<>>
    ELSE IF StartsWith(s, old)
         THEN new \o Replace(SubSeq(s, Len(old) + 1, Len(s)), old, new)
         ELSE <<Head(s)>> \o Replace(Tail(s), old, new)

\* "{}.{}".format(a, b) and the like
Fmt2(a, sep, b) == a \o sep \o b

\* os.path.join(a, b)
PathJoin(a, b) ==
    IF b # <<>> /\ Head(b) = "/" THEN b
    ELSE IF a = <<>> THEN b
    ELSE IF Last(a) = "/" THEN a \o b
    ELSE a \o <<"/">> \o b

PathJoin3(a, b, c) == PathJoin(PathJoin(a, b), c)

PathJoin4(a, b, c, d) == PathJoin(PathJoin3(a, b, c), d)

\* the directory part and the last component of a path
DirName(p) == RSplit1Head(p, "/")

BaseName(p) == Last(Split(p, "/"))

\* p and every ancestor directory of p (what os.makedirs(p) creates)
Ancestors(p) ==
    {SubSeq(p, 1, k) : k \in {j \in 1..Len(p) : j = Len(p) \/ p[j + 1] = "/"}}
        \ {q \in {SubSeq(p, 1, k) : k \in 1..Len(p)} : Last(q) = "/"}

\* q lies strictly below directory d
Below(d, q) == Len(q) > Len(d) + 1 /\ SubSeq(q, 1, Len(d) + 1) = d \o <<"/">>

\* q is an entry of directory d
ChildOf(d, q) == Below(d, q) /\ \A i \in (Len(d) + 2)..Len(q) : q[i] # "/"

\* ------------------------------------------------------------------------
\* Names and constants of the module
\* ------------------------------------------------------------------------

collection_manifest_json == <<"MANIFEST", ".", "json">>
role_meta_main_yml == <<"meta", "/", "main", ".", "yml">>
requirements_yml == <<"requirements", ".", "yml">>
download_metadata_file == <<"download_meta", ".", "json">>

\* LoadType (models.py): the kinds are their lower-case names
PROJECT == <<"project">>
COLLECTION == <<"collection">>
ROLE == <<"role">>
PLAYBOOK == <<"playbook">>
UNKNOWN == <<"unknown">>

supported_target_types == {PROJECT, COLLECTION, ROLE, PLAYBOOK}

tar_gz == <<"tar", ".", "gz">>
dot_tar_gz == <<".">> \o tar_gz

\* ------------------------------------------------------------------------
\* DownloadMetadata, Dependency
\* ------------------------------------------------------------------------

FieldOrder ==
    << "name", "type", "version", "author", "download_url", "download_src_path",
       "hash", "metafile_path", "files_json_path", "download_timestamp",
       "cache_enabled", "cache_dir", "source_repository", "requirements_file" >>

FieldNames == {FieldOrder[i] : i \in 1..Len(FieldOrder)}

\* DownloadMetadata(): every field at its default
DownloadMetadata ==
    [ name |-> <<>>, type |-> <<>>, version |-> <<>>, author |-> <<>>,
      download_url |-> <<>>, download_src_path |-> <<>>, hash |-> <<>>,
      metafile_path |-> <<>>, files_json_path |-> <<>>, download_timestamp |-> <<>>,
      cache_enabled |-> FALSE, cache_dir |-> <<>>, source_repository |-> <<>>,
      requirements_file |-> <<>> ]

\* DownloadMetadata(**data): the fields data gives, the defaults for the rest
DownloadMetadataFrom(data) ==
    [f \in FieldNames |-> IF f \in DOMAIN data THEN data[f] ELSE DownloadMetadata[f]]

\* Dependency(name=n), metadata a fresh DownloadMetadata()
Dependency(n) == [dir |-> <<>>, name |-> n, metadata |-> DownloadMetadata]

\* ------------------------------------------------------------------------
\* JSON: json.dump writes an object as its members in insertion order, a
\* str as a JSON string and a bool as true/false; json.load reads them back.
\* A Python dict with several keys is a sequence of members [k, v].
\* ------------------------------------------------------------------------

JsonString(x) == [t |-> "string", s |-> x, b |-> FALSE]
JsonBool(x) == [t |-> "bool", s |-> <<>>, b |-> x]

ToJson(f, x) == IF f = "cache_enabled" THEN JsonBool(x) ELSE JsonString(x)

FromJson(v) == IF v.t = "bool" THEN v.b ELSE v.s

\* one record (the dict asdict() gives) as a JSON object
JsonDumpRecord(d) ==
    [i \in 1..Len(FieldOrder) |-> [k |-> FieldOrder[i], v |-> ToJson(FieldOrder[i], d[FieldOrder[i]])]]

JsonLoadRecord(obj) ==
    [f \in {obj[i].k : i \in 1..Len(obj)} |->
        FromJson(obj[CHOOSE i \in 1..Len(obj) : obj[i].k = f /\ \A j \in (i + 1)..Len(obj) : obj[j].k # f].v)]

\* json.dump(data, f), data = {"collections": [...]} or {"roles": [...]}
JsonDump(data) ==
    [i \in 1..Len(data) |->
        [k |-> data[i].k, v |-> [j \in 1..Len(data[i].v) |-> JsonDumpRecord(data[i].v[j])]]]

\* json.load(f)
JsonLoad(doc) ==
    [i \in 1..Len(doc) |->
        [k |-> doc[i].k, v |-> [j \in 1..Len(doc[i].v) |-> JsonLoadRecord(doc[i].v[j])]]]

\* d.get(k, default)
PyGet(d, k, default) ==
    IF \E i \in 1..Len(d) : d[i].k = k
    THEN d[CHOOSE i \in 1..Len(d) : d[i].k = k].v
    ELSE default

\* d[k] = v
PySet(d, k, v) ==
    IF \E i \in 1..Len(d) : d[i].k = k
    THEN [i \in 1..Len(d) |-> IF d[i].k = k THEN [k |-> k, v |-> v] ELSE d[i]]
    ELSE Append(d, [k |-> k, v |-> v])

\* ------------------------------------------------------------------------
\* The file system: fs.dirs the directories, fs.files the plain files,
\* fs.meta the download_meta.json files with their JSON text.
\* ------------------------------------------------------------------------

Exists(fs, p) == p \in fs.dirs \/ p \in fs.files \/ p \in DOMAIN fs.meta

IsDir(fs, p) == p \in fs.dirs

IsFile(fs, p) == p \in fs.files \/ p \in DOMAIN fs.meta

Entries(fs) == fs.dirs \cup fs.files \cup DOMAIN fs.meta

\* os.makedirs(p)
Makedirs(fs, p) == [fs EXCEPT !.dirs = @ \cup Ancestors(p)]

\* if not os.path.exists(p): os.makedirs(p)
EnsureDir(fs, p) == IF Exists(fs, p) THEN fs ELSE Makedirs(fs, p)

\* os.listdir(d), d a directory
ListDir(fs, d) == {BaseName(q) : q \in {e \in Entries(fs) : ChildOf(d, e)}}

\* a plain file written (below an existing directory)
WriteFiles(fs, ps) == [fs EXCEPT !.files = @ \cup ps]

\* open(p, "w") ... json.dump(doc)
WriteMeta(fs, p, doc) ==
    [fs EXCEPT !.meta = [q \in DOMAIN fs.meta \cup {p} |-> IF q = p THEN doc ELSE fs.meta[q]]]

\* glob.glob(os.path.join(dir, type, "**", download_metadata_file), recursive=True)
GlobMetadataFiles(fs, dir, type) ==
    {p \in DOMAIN fs.meta : Below(PathJoin(dir, type), p) /\ BaseName(p) = download_metadata_file}

\* os.system("cp -r {}/* {}/".format(src, dst)): every entry below src is
\* copied to the same place below dst; nothing is copied when dst is no directory
CopyPath(src, dst, q) == dst \o SubSeq(q, Len(src) + 1, Len(q))

CopyTree(fs, src, dst) ==
    IF ~IsDir(fs, dst) THEN fs
    ELSE LET metas == {q \in DOMAIN fs.meta : Below(src, q)}
             copied == {CopyPath(src, dst, q) : q \in metas}
         IN  [ dirs  |-> fs.dirs \cup {CopyPath(src, dst, q) : q \in {e \in fs.dirs : Below(src, e)}},
               files |-> fs.files \cup {CopyPath(src, dst, q) : q \in {e \in fs.files : Below(src, e)}},
               meta  |-> [q \in DOMAIN fs.meta \cup copied |->
                            IF q \in copied
                            THEN fs.meta[CHOOSE m \in metas : CopyPath(src, dst, m) = q]
                            ELSE fs.meta[q]] ]

\* ------------------------------------------------------------------------
\* The metadata store
\* ------------------------------------------------------------------------

None == <<>>
Some(x) == <<x>>

\* the key of the list of a type in a metadata file
ListKey(type) == IF type = COLLECTION THEN "collections" ELSE "roles"

\* a variant of the loop of find_target_metadata that goes on after a match
LastMatch(metadata_list, target) ==
    LET hits == {i \in 1..Len(metadata_list) : DownloadMetadataFrom(metadata_list[i]).name = target}
    IN  IF hits = {} THEN <<>>
        ELSE <<DownloadMetadataFrom(metadata_list[CHOOSE i \in hits : \A j \in hits : j <= i])>>

\* for data in metadata_list: dm = DownloadMetadata(**data); if dm.name == target: return dm
FirstMatch(metadata_list, target) ==
    LET hits == {i \in 1..Len(metadata_list) : DownloadMetadataFrom(metadata_list[i]).name = target}
    IN  IF hits = {} THEN None
        ELSE Some(DownloadMetadataFrom(metadata_list[CHOOSE i \in hits : \A j \in hits : i <= j]))

\* a variant of find_target_metadata that reads the list of roles for every
\* type that is not COLLECTION
find_target_metadata_any_type(fs, type, metadata_file, target) ==
    IF metadata_file \notin DOMAIN fs.meta
    THEN [raised |-> TRUE, md |-> None]
    ELSE [raised |-> FALSE,
          md |-> FirstMatch(PyGet(JsonLoad(fs.meta[metadata_file]), ListKey(type), <<>>), target)]

\* find_target_metadata(type, metadata_file, target): raised when the file
\* cannot be opened, else md the record found or None
find_target_metadata(fs, type, metadata_file, target) ==
    IF metadata_file \notin DOMAIN fs.meta
    THEN [raised |-> TRUE, md |-> None]
    ELSE LET metadata == JsonLoad(fs.meta[metadata_file])
         IN  IF type \in {COLLECTION, ROLE}
             THEN [raised |-> FALSE, md |-> FirstMatch(PyGet(metadata, ListKey(type), <<>>), target)]
             ELSE [raised |-> FALSE, md |-> None]

\* export_data(data, dir, filename): the file system after it; it returns
\* os.path.join(dir, filename)
export_data(fs, data, dir, filename) ==
    WriteMeta(EnsureDir(fs, dir), PathJoin(dir, filename), JsonDump(data))

\* hasattr(dm, key): the fields, and what every object has
ObjectAttrs == {"__class__"}
HasAttr(key) == key \in FieldNames \cup ObjectAttrs

\* setattr(dm, key, value) raises for __class__ (value is no class)
SetAttrRaises(key) == key \in ObjectAttrs

\* a variant of setattr that sets nothing
SetAttrIgnored(dm, key, value) == dm

SetAttr(dm, key, value) == [dm EXCEPT ![key] = value]

\* a variant of the loop of update_metadata that updates every record
UpdatedRecordAll(data, target, key, value) ==
    LET dm == DownloadMetadataFrom(data)
    IN  IF HasAttr(key) THEN SetAttr(dm, key, value) ELSE dm

\* the record update_metadata stores at index i
UpdatedRecord(data, target, key, value) ==
    LET dm == DownloadMetadataFrom(data)
    IN  IF dm.name = target
        THEN IF HasAttr(key) THEN SetAttr(dm, key, value) ELSE dm
        ELSE data

\* update_metadata(type, metadata_file, target, key, value)
update_metadata(fs, type, metadata_file, target, key, value) ==
    IF metadata_file \notin DOMAIN fs.meta
    THEN [raised |-> TRUE, fs |-> fs]
    ELSE LET metadata == JsonLoad(fs.meta[metadata_file])
             metadata_list == PyGet(metadata, ListKey(type), <<>>)
             matched == \E i \in 1..Len(metadata_list) :
                            DownloadMetadataFrom(metadata_list[i]).name = target
             updated == [i \in 1..Len(metadata_list) |->
                            UpdatedRecord(metadata_list[i], target, key, value)]
         IN  IF type \notin {COLLECTION, ROLE} \/ ~matched
             THEN [raised |-> FALSE, fs |-> fs]
             ELSE IF HasAttr(key) /\ SetAttrRaises(key)
                  THEN [raised |-> TRUE, fs |-> fs]
                  ELSE [raised |-> FALSE,
                        fs |-> WriteMeta(fs, metadata_file,
                                         JsonDump(PySet(metadata, ListKey(type), updated)))]

\* ------------------------------------------------------------------------
\* The log parsers.  A log is the sequence of its lines.
\* ------------------------------------------------------------------------

\* utils.get_hash_of_url, os.path.getmtime (as an ISO time) and get_author are
\* functions of their argument; their values are not looked into
get_hash_of_url(url) == <<"#">> \o url
MTime(path) == <<"T">>
get_author(fs, type, metafile_path) == IF Exists(fs, metafile_path) THEN <<"author">> ELSE <<>>

\* re.findall(r"Downloading (.*) to", line): at most one match in a line, from
\* the first "Downloading " to the last " to" after it
RegexDownloading(line) ==
    LET starts == {i \in 1..(Len(line) - 1) : SubSeq(line, i, i + 1) = <<"Downloading", " ">>}
        ends   == {j \in 1..(Len(line) - 1) : SubSeq(line, j, j + 1) = <<" ", "to">>}
        ok     == {i \in starts : \E j \in ends : j >= i + 2}
    IN  IF ok = {} THEN None
        ELSE LET i == CHOOSE a \in ok : \A b \in ok : a <= b
                 j == CHOOSE a \in ends : \A b \in ends : b <= a
             IN  Some(SubSeq(line, i + 2, j - 1))

\* get_metafile_in_target(COLLECTION, filepath): the manifest and the file list
\* of the archive are written beside it
ManifestPath(filepath) == Replace(filepath, dot_tar_gz, <<"-">> \o collection_manifest_json)
FilesJsonPath(filepath) == Replace(filepath, dot_tar_gz, <<"-", "FILES", ".", "json">>)

\* the record of one matched url (its archive exists)
CollectionRecord(fs, url, download_location) ==
    LET filename == Last(Split(url, "/"))
        fullpath == download_location \o <<"/">> \o filename
        fs1 == WriteFiles(fs, {ManifestPath(fullpath), FilesJsonPath(fullpath)})
    IN  [DownloadMetadata EXCEPT
            !.type = COLLECTION,
            !.download_url = url,
            !.version = Replace(Last(Split(url, "-")), dot_tar_gz, <<>>),
            !.name = Last(Split(Split(url, "-")[1], "/")) \o <<".">> \o Split(url, "-")[2],
            !.download_timestamp = MTime(fullpath),
            !.download_src_path = fullpath,
            !.metafile_path = ManifestPath(fullpath),
            !.files_json_path = FilesJsonPath(fullpath),
            !.author = get_author(fs1, COLLECTION, ManifestPath(fullpath)),
            !.requirements_file = download_location \o <<"/">> \o requirements_yml,
            !.hash = IF url # <<>> THEN get_hash_of_url(url) ELSE <<>>]

\* url.split("-")[1] raises IndexError; os.path.getmtime(fullpath) raises when
\* the archive is not there (the warning before it does not stop it)
CollectionRecordRaises(fs, url, download_location) ==
    \/ Len(Split(url, "-")) < 2
    \/ ~Exists(fs, download_location \o <<"/">> \o Last(Split(url, "/")))

\* extract_collections_metadata(log_message, download_location)
RECURSIVE ExtractCollections(_, _, _, _)
ExtractCollections(fs, log_message, download_location, acc) ==
    IF log_message = <<>>
    THEN [raised |-> FALSE, fs |-> fs, list |-> acc]
    ELSE LET m == RegexDownloading(Head(log_message))
         IN  IF m = None \/ ~EndsWith(m[1], tar_gz)
             THEN ExtractCollections(fs, Tail(log_message), download_location, acc)
             ELSE IF CollectionRecordRaises(fs, m[1], download_location)
                  THEN [raised |-> TRUE, fs |-> fs, list |-> acc]
                  ELSE LET fullpath == download_location \o <<"/">> \o Last(Split(m[1], "/"))
                       IN  ExtractCollections(
                               WriteFiles(fs, {ManifestPath(fullpath), FilesJsonPath(fullpath)}),
                               Tail(log_message), download_location,
                               Append(acc, CollectionRecord(fs, m[1], download_location)))

extract_collections_metadata(fs, log_message, download_location) ==
    ExtractCollections(fs, log_message, download_location, <<>>)

downloading_role_from == <<"-", " ", "downloading", " ", "role", " ", "from", " ">>

\* a variant of lines 610-626 that reads the name off the sentinel line itself
RoleRecordSameLine(messages, i) ==
    LET url == Last(Split(messages[i], " "))
        role_dir == Last(Split(messages[i + 1], " "))
    IN  [DownloadMetadata EXCEPT
            !.type = ROLE,
            !.download_url = url,
            !.version = Replace(Last(Split(url, "/")), dot_tar_gz, <<>>),
            !.name = Last(Split(messages[i], "/")),
            !.download_timestamp = MTime(role_dir),
            !.download_src_path = role_dir,
            !.hash = IF url # <<>> THEN get_hash_of_url(url) ELSE <<>>]

\* the record of the sentinel line messages[i]
RoleRecord(messages, i) ==
    LET url == Last(Split(messages[i], " "))
        role_dir == Last(Split(messages[i + 1], " "))
    IN  [DownloadMetadata EXCEPT
            !.type = ROLE,
            !.download_url = url,
            !.version = Replace(Last(Split(url, "/")), dot_tar_gz, <<>>),
            !.name = Last(Split(messages[i + 1], "/")),
            !.download_timestamp = MTime(role_dir),
            !.download_src_path = role_dir,
            !.hash = IF url # <<>> THEN get_hash_of_url(url) ELSE <<>>]

\* messages[i + 1] raises IndexError on the last line; os.path.getmtime(role_dir)
\* raises when the role directory is not there
RoleRecordRaises(fs, messages, i) ==
    \/ i + 1 > Len(messages)
    \/ ~Exists(fs, Last(Split(messages[i + 1], " ")))

\* extract_roles_metadata(log_message)
extract_roles_metadata(fs, log_message) ==
    LET sentinels == {i \in 1..Len(log_message) : StartsWith(log_message[i], downloading_role_from)}
        RECURSIVE Records(_)
        Records(i) ==
            IF i > Len(log_message) THEN <<>>
            ELSE IF i \in sentinels THEN <<RoleRecord(log_message, i)>> \o Records(i + 1)
            ELSE Records(i + 1)
    IN  IF \E i \in sentinels : RoleRecordRaises(fs, log_message, i)
        THEN [raised |-> TRUE, list |-> <<>>]
        ELSE [raised |-> FALSE, list |-> Records(1)]

\* ------------------------------------------------------------------------
\* The external tools.  Each runs as a subprocess whose exit status the code
\* never reads: what it printed and what it left on disk is all there is.
\* An outcome o says whether the tool worked (o.ok), which version the
\* registry served when none was asked for (o.ver) and from where (o.host).
\* ------------------------------------------------------------------------

\* the archive of collection <ns>.<name>, version ver
ArchiveName(target, ver) ==
    Split(target, ".")[1] \o <<"-">> \o Split(target, ".")[2] \o <<"-">> \o ver \o dot_tar_gz

DownloadUrl(host, filename) == <<"https:", "/", "/">> \o host \o <<"/", "download", "/">> \o filename

\* download_galaxy_collection(target, output_dir, version, source_repository):
\* ansible-galaxy collection download '<target>[:<version>]' -p <output_dir>
download_galaxy_collection(fs, target, output_dir, version, o) ==
    IF ~o.ok \/ Len(Split(target, ".")) # 2
    THEN [msg |-> <<>>, fs |-> fs]
    ELSE LET ver == IF version # <<>> THEN version ELSE o.ver
             filename == ArchiveName(target, ver)
         IN  [ msg |-> << <<"Starting", " ", "collection", " ", "download", " ", "process", " ", "to", " ">> \o output_dir,
                          <<"Downloading", " ">> \o DownloadUrl(o.host, filename)
                              \o <<" ", "to", " ", "/", "home", "/", "tmp", "/">> \o filename,
                          <<"Downloading", " ", "collection", " ", "'">> \o target \o <<":">> \o ver
                              \o <<"'", " ", "to", " ">> \o output_dir >>,
               fs  |-> WriteFiles(Makedirs(fs, output_dir),
                                  {PathJoin(output_dir, filename), PathJoin(output_dir, requirements_yml)}) ]

\* where ansible-galaxy collection install puts the collection of an archive
InstalledCollectionDir(tarfile, output_dir) ==
    LET parts == Split(BaseName(tarfile), "-")
    IN  PathJoin4(output_dir, <<"ansible_collections">>, parts[1], parts[2])

InstallArchive(fs, tarfile, output_dir) ==
    WriteFiles(Makedirs(fs, InstalledCollectionDir(tarfile, output_dir)),
               {PathJoin(InstalledCollectionDir(tarfile, output_dir), collection_manifest_json)})

\* install_galaxy_collection_from_targz(tarfile, output_dir):
\* ansible-galaxy collection install <tarfile> -p <output_dir>
install_galaxy_collection_from_targz(fs, tarfile, output_dir, o) ==
    IF o.ok /\ tarfile \in fs.files /\ EndsWith(tarfile, dot_tar_gz) /\ Len(Split(BaseName(tarfile), "-")) >= 3
    THEN InstallArchive(fs, tarfile, output_dir)
    ELSE fs

\* install_galaxy_collection_from_reqfile(requirements, output_dir):
\* cd <dir of requirements> && ansible-galaxy collection install -r <requirements> -p <output_dir>
\* installs every archive the requirements file lists: those beside it
RECURSIVE InstallAll(_, _, _)
InstallAll(fs, tarfiles, output_dir) ==
    IF tarfiles = {} THEN fs
    ELSE LET t == CHOOSE x \in tarfiles : TRUE
         IN  InstallAll(InstallArchive(fs, t, output_dir), tarfiles \ {t}, output_dir)

install_galaxy_collection_from_reqfile(fs, requirements, output_dir, o) ==
    IF o.ok /\ requirements \in fs.files
    THEN InstallAll(fs, {t \in fs.files : ChildOf(DirName(requirements), t) /\ EndsWith(t, dot_tar_gz)
                                            /\ Len(Split(BaseName(t), "-")) >= 3},
                    output_dir)
    ELSE fs

\* utils.install_galaxy_target(name, ROLE, output_dir, source_repository, target_version):
\* ansible-galaxy role install <name>[,<version>] -p <output_dir>
RoleUrl(name, ver) == <<"https:", "/", "/", "github", "/">> \o name \o <<"/", "archive", "/">> \o ver \o dot_tar_gz

install_galaxy_target(fs, name, output_dir, target_version, o) ==
    IF ~o.ok
    THEN [msg |-> <<>>, fs |-> fs]
    ELSE LET ver == IF target_version # <<>> THEN target_version ELSE o.ver
             role_dir == PathJoin(output_dir, name)
         IN  [ msg |-> << <<"-", " ", "downloading", " ", "role", " ", "'">> \o name \o <<"'">>,
                          downloading_role_from \o RoleUrl(name, ver),
                          <<"-", " ", "extracting", " ">> \o name \o <<" ", "to", " ">> \o role_dir,
                          <<"-", " ">> \o name \o <<" ", "was", " ", "installed", " ", "successfully">> >>,
               fs  |-> WriteFiles(Makedirs(fs, PathJoin(role_dir, <<"meta">>)),
                                  {PathJoin(role_dir, role_meta_main_yml)}) ]

\* utils.install_github_target(target, output_dir): git clone <target> <output_dir>
install_github_target(fs, target, output_dir, o) ==
    IF ~o.ok
    THEN [msg |-> <<>>, fs |-> fs]
    ELSE [ msg |-> << <<"Cloning", " ", "into", " ">> \o output_dir >>,
           fs  |-> WriteFiles(Makedirs(fs, output_dir), {PathJoin(output_dir, <<"site", ".", "yml">>)}) ]

\* a variant of lines 684-687 without the check of dst
move_src_raises_src_only(fs, src, dst) == src = <<>> \/ ~Exists(fs, src) \/ ~IsDir(fs, src)

\* move_src(src, dst): raises ValueError, else copies
move_src_raises(fs, src, dst) ==
    \/ src = <<>> \/ ~Exists(fs, src) \/ ~IsDir(fs, src)
    \/ dst = <<>> \/ Contains(dst, <<".", ".">>)

move_src(fs, src, dst) == CopyTree(fs, src, dst)

\* ------------------------------------------------------------------------
\* prepare_dependency_dir: one pass of a loop is one step.  A step gives the
\* file system after it, the descriptor it appends (unless it raised), the
\* fetches it issued and the branch it took.
\* ------------------------------------------------------------------------

\* is_download_file_exist(type, target, dir): the results it can give.  With
\* several matches the last in glob or listdir order wins: any of them.
is_download_file_exist(fs, type, target, dir) ==
    LET download_metadata_files == GlobMetadataFiles(fs, dir, type)
        found == {m \in download_metadata_files : find_target_metadata(fs, type, m, target).md # None}
        namepart == Replace(target, <<".">>, <<"-">>)
        archives == {file \in ListDir(fs, dir) : EndsWith(file, dot_tar_gz) /\ Contains(file, namepart)}
    IN  IF download_metadata_files # {}
        THEN IF found = {}
             THEN {[raised |-> FALSE, is_exist |-> FALSE, filename |-> <<>>]}
             ELSE {[raised |-> FALSE, is_exist |-> TRUE,
                    filename |-> find_target_metadata(fs, type, m, target).md[1].download_src_path] : m \in found}
        ELSE IF ~IsDir(fs, dir)
             THEN {[raised |-> TRUE, is_exist |-> FALSE, filename |-> <<>>]}
             ELSE IF archives = {}
                  THEN {[raised |-> FALSE, is_exist |-> FALSE, filename |-> <<>>]}
                  ELSE {[raised |-> FALSE, is_exist |-> TRUE, filename |-> file] : file \in archives}

Fetch(tool, name, dir) == [tool |-> tool, name |-> name, dir |-> dir]

StepRaised(fs, fetches, branch, exc) ==
    [raised |-> TRUE, exc |-> exc, fs |-> fs, dep |-> Dependency(<<>>), fetches |-> fetches, branch |-> branch]

StepDone(fs, dep, fetches, branch) ==
    [raised |-> FALSE, exc |-> "", fs |-> fs, dep |-> dep, fetches |-> fetches, branch |-> branch]

Collections(list) == <<[k |-> "collections", v |-> list]>>
Roles(list) == <<[k |-> "roles", v |-> list]>>

\* cdep a str, or a dict with name, version and source
ColName(cdep) == IF cdep.isdict /\ cdep.name = <<>> THEN cdep.source ELSE cdep.name
ColVersion(cdep) == IF cdep.isdict THEN cdep.version ELSE <<>>

\* os.path.join(sub_dependency_dir_path, "ansible_collections", parts[0], parts[1])
CollectionDir(sub_dependency_dir_path, col_name) ==
    PathJoin4(sub_dependency_dir_path, <<"ansible_collections">>, Split(col_name, ".")[1], Split(col_name, ".")[2])

\* lines 223-227: install from the archive, then fill the descriptor in
ColCacheFinish(fs, md, targz_file, col_name, dep, sub, fetches, o) ==
    LET fs1 == install_galaxy_collection_from_targz(fs, targz_file, sub, [ok |-> o.inst])
    IN  IF md = None
        THEN StepRaised(fs1, fetches, "cache", "AttributeError")
        ELSE IF Len(Split(col_name, ".")) < 2
        THEN StepRaised(fs1, fetches, "cache", "IndexError")
        ELSE StepDone(fs1,
                      [dep EXCEPT !.metadata = [md[1] EXCEPT !.cache_dir = targz_file],
                                  !.dir = CollectionDir(sub, col_name)],
                      fetches, "cache")

\* lines 202-227, r what is_download_file_exist gave
ColCacheBranch(fs, cache_dir, col_name, col_version, dep, sub, r, o) ==
    IF r.raised THEN StepRaised(fs, <<>>, "cache", "FileNotFoundError")
    ELSE IF r.is_exist
    THEN LET metadata_file == PathJoin(RSplit1Head(r.filename, "/"), download_metadata_file)
             f == find_target_metadata(fs, COLLECTION, metadata_file, col_name)
         IN  IF f.raised THEN StepRaised(fs, <<>>, "cache", "FileNotFoundError")
             ELSE ColCacheFinish(fs, f.md, r.filename, col_name, dep, sub, <<>>, o)
    ELSE LET cache_location == PathJoin3(cache_dir, <<"collection">>, col_name)
             fetches == <<Fetch("download_galaxy_collection", col_name, cache_location)>>
             d == download_galaxy_collection(fs, col_name, cache_location, col_version, o)
             e == extract_collections_metadata(d.fs, d.msg, cache_location)
             fs2 == export_data(e.fs, Collections(e.list), cache_location, download_metadata_file)
             f == find_target_metadata(fs2, COLLECTION, PathJoin(cache_location, download_metadata_file), col_name)
         IN  IF e.raised THEN StepRaised(e.fs, fetches, "cache", "FileNotFoundError")
             ELSE ColCacheFinish(fs2, f.md,
                                 IF f.md # None THEN f.md[1].download_src_path ELSE r.filename,
                                 col_name, dep, sub, fetches, o)

\* a variant of lines 228-242 that takes the mapped directory for a base
\* directory, as the other branches take theirs
ColPathBranchNested(fs, source_repository, mapped_dir, galaxy_data, dep) ==
    [raised |-> FALSE, exc |-> "", fs |-> fs,
     dep |-> [dep EXCEPT !.metadata.source_repository = source_repository,
                         !.dir = PathJoin4(mapped_dir, <<"ansible_collections">>,
                                           Split(dep.name, ".")[1], Split(dep.name, ".")[2])],
     fetches |-> <<>>, branch |-> "paths"]

\* lines 228-242: the finder gave a directory for the name.  galaxy_data is
\* the finder's metadata for it: isdict says whether it is a dict
ColPathBranch(fs, source_repository, mapped_dir, galaxy_data, dep) ==
    IF galaxy_data.isdict
    THEN StepDone(fs,
                  [dep EXCEPT !.metadata.source_repository = source_repository,
                              !.metadata.download_url = galaxy_data.download_url,
                              !.metadata.hash = IF galaxy_data.download_url # <<>>
                                                THEN get_hash_of_url(galaxy_data.download_url) ELSE <<>>,
                              !.metadata.version = galaxy_data.version,
                              !.dir = mapped_dir],
                  <<>>, "paths")
    ELSE StepDone(fs, dep, <<>>, "paths")

\* lines 264-268
ColDefaultFinish(fs, md, source_repository, col_name, dep, sub, fetches) ==
    IF Len(Split(col_name, ".")) < 2
    THEN StepRaised(fs, fetches, "default", "IndexError")
    ELSE StepDone(fs,
                  [dep EXCEPT !.metadata = [(IF md # None THEN md[1] ELSE dep.metadata)
                                                EXCEPT !.source_repository = source_repository],
                              !.dir = CollectionDir(sub, col_name)],
                  fetches, "default")

\* lines 243-268, r what is_download_file_exist gave
ColDefaultBranch(fs, download_location, target_name, source_repository, col_name, col_version, dep, sub, r, o) ==
    IF r.raised THEN StepRaised(fs, <<>>, "default", "FileNotFoundError")
    ELSE IF r.is_exist
    THEN LET metadata_file == PathJoin4(download_location, <<"collection">>, target_name, download_metadata_file)
             fs1 == install_galaxy_collection_from_targz(fs, r.filename, sub, [ok |-> o.inst])
             f == find_target_metadata(fs1, COLLECTION, metadata_file, col_name)
         IN  IF f.raised THEN StepRaised(fs1, <<>>, "default", "FileNotFoundError")
             ELSE ColDefaultFinish(fs1, f.md, source_repository, col_name, dep, sub, <<>>)
    ELSE LET sub_download_location == PathJoin3(download_location, <<"collection">>, col_name)
             fetches == <<Fetch("download_galaxy_collection", col_name, sub_download_location)>>
             d == download_galaxy_collection(EnsureDir(fs, sub_download_location), col_name,
                                             sub_download_location, col_version, o)
             e == extract_collections_metadata(d.fs, d.msg, sub_download_location)
             fs2 == export_data(e.fs, Collections(e.list), sub_download_location, download_metadata_file)
             f == find_target_metadata(fs2, COLLECTION,
                                       PathJoin(sub_download_location, download_metadata_file), col_name)
             fs3 == IF f.md # None
                    THEN install_galaxy_collection_from_reqfile(fs2, f.md[1].requirements_file, sub, [ok |-> o.inst])
                    ELSE fs2
         IN  IF e.raised THEN StepRaised(e.fs, fetches, "default", "FileNotFoundError")
             ELSE ColDefaultFinish(fs3, f.md, source_repository, col_name, dep, sub, fetches)

\* rdep a str, or a dict with name and version (name None when it has none)
RoleVersion(rdep) == IF rdep.isdict THEN rdep.version ELSE <<>>

\* lines 340-342
RoleFinish(fs, md, source_repository, dir, dep, fetches, branch) ==
    StepDone(fs,
             [dep EXCEPT !.metadata = [(IF md # None THEN md[1] ELSE dep.metadata)
                                           EXCEPT !.source_repository = source_repository],
                         !.dir = dir],
             fetches, branch)

\* lines 319-321
RoleCacheMove(fs, md, source_repository, dep, sub, cache_dir_path, fetches) ==
    IF move_src_raises(fs, sub, cache_dir_path)
    THEN StepRaised(fs, fetches, "cache", "ValueError")
    ELSE RoleFinish(move_src(fs, sub, cache_dir_path), md, source_repository, sub, dep, fetches, "cache")

\* lines 300-321
RoleCacheBranch(fs, cache_dir, target_name, source_repository, name, target_version, dep, sub, o) ==
    LET cache_dir_path == PathJoin4(cache_dir, <<"roles">>, <<"src">>, name)
        metadata_file == PathJoin(cache_dir_path, download_metadata_file)
    IN  IF Exists(fs, cache_dir_path) /\ ListDir(fs, cache_dir_path) # {}
        THEN LET f == find_target_metadata(fs, ROLE, metadata_file, target_name)
             IN  IF f.raised THEN StepRaised(fs, <<>>, "cache", "FileNotFoundError")
                 ELSE RoleCacheMove(fs, f.md, source_repository, dep, sub, cache_dir_path, <<>>)
        ELSE LET fetches == <<Fetch("install_galaxy_target", name, cache_dir_path)>>
                 i == install_galaxy_target(fs, name, cache_dir_path, target_version, o)
                 e == extract_roles_metadata(i.fs, i.msg)
                 fs2 == export_data(i.fs, Roles(e.list), cache_dir_path, download_metadata_file)
                 f == find_target_metadata(fs2, ROLE, metadata_file, target_name)
             IN  IF e.raised THEN StepRaised(i.fs, fetches, "cache", "IndexError")
                 ELSE RoleCacheMove(fs2, f.md, source_repository, dep, sub, cache_dir_path, fetches)

\* lines 325-339, r what is_download_file_exist gave
RoleDefaultBranch(fs, download_location, source_repository, name, dep, sub, r, o) ==
    LET sub_download_location == PathJoin3(download_location, <<"role">>, name)
        metadata_file == PathJoin(sub_download_location, download_metadata_file)
    IN  IF r.raised THEN StepRaised(fs, <<>>, "default", "FileNotFoundError")
        ELSE IF r.is_exist
        THEN LET f == find_target_metadata(fs, ROLE, metadata_file, name)
             IN  IF f.raised THEN StepRaised(fs, <<>>, "default", "FileNotFoundError")
                 ELSE IF f.md = None THEN StepRaised(fs, <<>>, "default", "AttributeError")
                 ELSE IF move_src_raises(fs, f.md[1].download_src_path, sub)
                 THEN StepRaised(fs, <<>>, "default", "ValueError")
                 ELSE RoleFinish(move_src(fs, f.md[1].download_src_path, sub), f.md,
                                 source_repository, sub, dep, <<>>, "default")
        ELSE LET fetches == <<Fetch("install_galaxy_target", name, sub)>>
                 i == install_galaxy_target(fs, name, sub, <<>>, o)
                 e == extract_roles_metadata(i.fs, i.msg)
                 fs2 == export_data(i.fs, Roles(e.list), sub_download_location, download_metadata_file)
                 f == find_target_metadata(fs2, ROLE, metadata_file, name)
             IN  IF e.raised THEN StepRaised(i.fs, fetches, "default", "IndexError")
                 ELSE RoleFinish(fs2, f.md, source_repository, sub, dep, fetches, "default")

\* a variant of lines 187-192 that leaves name= out of Dependency(...)
NewDependencyUnnamed(name, type, cache_enabled) ==
    [Dependency(<<>>) EXCEPT !.metadata.type = type, !.metadata.name = name,
                             !.metadata.cache_enabled = cache_enabled]

\* the descriptor a pass starts from (lines 187-192, 283-288)
NewDependency(name, type, cache_enabled) ==
    [Dependency(name) EXCEPT !.metadata.type = type, !.metadata.name = name,
                             !.metadata.cache_enabled = cache_enabled]

\* a variant of the branch order that asks the finder's paths first
BranchPathsFirst(cache_enabled, name, dependency_dirs) ==
    IF name \in DOMAIN dependency_dirs THEN "paths"
    ELSE IF cache_enabled THEN "cache"
    ELSE "default"

\* the branch of a pass (lines 202, 228, 243; 300, 322, 325)
Branch(cache_enabled, name, dependency_dirs) ==
    IF cache_enabled THEN "cache"
    ELSE IF name \in DOMAIN dependency_dirs THEN "paths"
    ELSE "default"

\* dependencies.get("metadata", {}).get("collections", {}).get(col_name, {})
GalaxyData(col_dependency_metadata, col_name) ==
    IF col_name \in DOMAIN col_dependency_metadata
    THEN col_dependency_metadata[col_name]
    ELSE [isdict |-> TRUE, download_url |-> <<>>, version |-> <<>>]

NoResult == [raised |-> FALSE, is_exist |-> FALSE, filename |-> <<>>]

\* what is_download_file_exist can give for the pass of cdep, where it is called
ColExistResults(self, fs, args, dependencies, cdep) ==
    LET col_name == ColName(cdep)
        sub == PathJoin3(self.dependency_dir_path, <<"collections">>, <<"src">>)
        branch == Branch(args.cache_enabled, col_name, dependencies.paths.collections)
    IN  IF branch = "cache"
        THEN is_download_file_exist(EnsureDir(fs, sub), COLLECTION, col_name, args.cache_dir)
        ELSE IF branch = "default"
        THEN is_download_file_exist(EnsureDir(fs, sub), COLLECTION, col_name,
                                    PathJoin3(self.download_location, <<"collection">>, col_name))
        ELSE {NoResult}

\* one pass of the loop over the collections (lines 177-269)
ColStep(self, fs, args, dependencies, cdep, r, o) ==
    LET col_name == ColName(cdep)
        dep == NewDependency(col_name, COLLECTION, args.cache_enabled)
        sub == PathJoin3(self.dependency_dir_path, <<"collections">>, <<"src">>)
        fs1 == EnsureDir(fs, sub)
        branch == Branch(args.cache_enabled, col_name, dependencies.paths.collections)
    IN  IF branch = "cache"
        THEN ColCacheBranch(fs1, args.cache_dir, col_name, ColVersion(cdep), dep, sub, r, o)
        ELSE IF branch = "paths"
        THEN ColPathBranch(fs1, self.source_repository, dependencies.paths.collections[col_name],
                           GalaxyData(dependencies.metadata.collections, col_name), dep)
        ELSE ColDefaultBranch(fs1, self.download_location, self.target_name, self.source_repository,
                              col_name, ColVersion(cdep), dep, sub, r, o)

RoleExistResults(self, fs, args, dependencies, rdep) ==
    LET sub == PathJoin4(self.dependency_dir_path, <<"roles">>, <<"src">>, rdep.name)
    IN  IF rdep.hasname /\ Branch(args.cache_enabled, rdep.name, dependencies.paths.roles) = "default"
        THEN is_download_file_exist(EnsureDir(fs, sub), ROLE, rdep.name,
                                    PathJoin3(self.download_location, <<"role">>, rdep.name))
        ELSE {NoResult}

\* one pass of the loop over the roles (lines 271-342)
RoleStep(self, fs, args, dependencies, rdep, r, o) ==
    LET name == rdep.name
        dep == NewDependency(name, ROLE, args.cache_enabled)
        sub == PathJoin4(self.dependency_dir_path, <<"roles">>, <<"src">>, name)
        fs1 == EnsureDir(fs, sub)
        branch == Branch(args.cache_enabled, name, dependencies.paths.roles)
    IN  IF ~rdep.hasname
        THEN StepRaised(fs, <<>>, "none", "TypeError")
        ELSE IF branch = "cache"
        THEN RoleCacheBranch(fs1, args.cache_dir, self.target_name, self.source_repository,
                             name, RoleVersion(rdep), dep, sub, o)
        ELSE IF branch = "paths"
        THEN RoleFinish(fs1, None, self.source_repository, dependencies.paths.roles[name], dep, <<>>, "paths")
        ELSE RoleDefaultBranch(fs1, self.download_location, self.source_repository, name, dep, sub, r, o)

\* ------------------------------------------------------------------------
\* The root installer
\* ------------------------------------------------------------------------

\* utils.is_url, utils.is_local_path, utils.escape_url
is_url(s) == s # <<>> /\ Head(s) = "https:"
is_local_path(s) == s # <<>> /\ Head(s) \in {"/", "."}
escape_url(s) == Replace(s, <<"/">>, <<"_">>)

\* get_metafile_in_target(ROLE, filepath)[0]: the first meta/main.yml below it
RoleMetafile(fs, filepath) ==
    LET role_meta_files == {q \in fs.files : Below(filepath, q) /\ EndsWith(q, <<"/">> \o role_meta_main_yml)}
    IN  IF role_meta_files = {} THEN <<>> ELSE CHOOSE q \in role_meta_files : TRUE

\* update_role_download_src(metadata_file, dst_src_dir), the file being there
update_role_download_src(fs, metadata_file, dst_src_dir) ==
    LET metadata == JsonLoad(fs.meta[metadata_file])
        metadata_list == PyGet(metadata, "roles", <<>>)
        Moved(data) ==
            LET dm == DownloadMetadataFrom(data)
                value == dst_src_dir \o <<"/">> \o dm.name
            IN  [dm EXCEPT !.download_src_path = value,
                           !.metafile_path = RoleMetafile(fs, value),
                           !.author = get_author(fs, ROLE, RoleMetafile(fs, value))]
    IN  WriteMeta(fs, metadata_file,
                  JsonDump(PySet(metadata, "roles", [i \in 1..Len(metadata_list) |-> Moved(metadata_list[i])])))

\* what a step of root_install gives: the object, the file system, the
\* locals the later steps read, the fetches it issued, whether it raised
RootRaised(self, fs, frame, fetches, exc) ==
    [raised |-> TRUE, exc |-> exc, self |-> self, fs |-> fs, frame |-> frame, fetches |-> fetches]

RootDone(self, fs, frame, fetches) ==
    [raised |-> FALSE, exc |-> "", self |-> self, fs |-> fs, frame |-> frame, fetches |-> fetches]

NoFrame ==
    [install_msg |-> <<>>, dst_src_dir |-> <<>>, dependency_dir |-> <<>>, metadata_file |-> <<>>]

TmpSrcDir(self) == PathJoin(self.tmp_install_dir[1], <<"src">>)

\* root_install, lines 357-369
RootFetchProject(self, fs, o) ==
    LET i == install_github_target(fs, self.target_name, TmpSrcDir(self), o)
        fetches == <<Fetch("install_github_target", self.target_name, TmpSrcDir(self))>>
    IN  IF "src" \notin DOMAIN self.target_path_mappings
        THEN RootRaised(self, i.fs, NoFrame, fetches, "KeyError")
        ELSE IF self.metadata = None
        THEN RootRaised(self, i.fs, NoFrame, fetches, "AttributeError")
        ELSE RootDone([self EXCEPT !.metadata = Some([self.metadata[1] EXCEPT !.download_url = self.target_name])],
                      i.fs,
                      [install_msg |-> i.msg,
                       dst_src_dir |-> PathJoin(self.target_path_mappings["src"], escape_url(self.target_name)),
                       dependency_dir |-> self.target_dependency_dir,
                       metadata_file |-> <<>>],
                      fetches)

\* root_install, lines 370-379
RootFetchCollection(self, fs, o) ==
    LET sub_download_location == PathJoin3(self.download_location, <<"collection">>, self.target_name)
        fetches == <<Fetch("download_galaxy_collection", self.target_name, sub_download_location)>>
        d == download_galaxy_collection(fs, self.target_name, sub_download_location, self.target_version, o)
        e == extract_collections_metadata(d.fs, d.msg, sub_download_location)
        fs2 == export_data(e.fs, Collections(e.list), sub_download_location, download_metadata_file)
        metadata_file == PathJoin(sub_download_location, download_metadata_file)
        f == find_target_metadata(fs2, COLLECTION, metadata_file, self.target_name)
        fs3 == install_galaxy_collection_from_reqfile(fs2, f.md[1].requirements_file, TmpSrcDir(self), [ok |-> o.inst])
    IN  IF e.raised THEN RootRaised(self, e.fs, NoFrame, fetches, "FileNotFoundError")
        ELSE IF f.md = None THEN RootRaised(self, fs2, NoFrame, fetches, "AttributeError")
        ELSE IF "src" \notin DOMAIN self.target_path_mappings
        THEN RootRaised(self, fs3, NoFrame, fetches, "KeyError")
        ELSE RootDone([self EXCEPT !.metadata = f.md], fs3,
                      [install_msg |-> d.msg,
                       dst_src_dir |-> self.target_path_mappings["src"],
                       dependency_dir |-> TmpSrcDir(self),
                       metadata_file |-> metadata_file],
                      fetches)

\* root_install, lines 380-392
RootFetchRole(self, fs, o) ==
    LET sub_download_location == PathJoin3(self.download_location, <<"role">>, self.target_name)
        fetches == <<Fetch("install_galaxy_target", self.target_name, TmpSrcDir(self))>>
        i == install_galaxy_target(fs, self.target_name, TmpSrcDir(self), self.target_version, o)
        e == extract_roles_metadata(i.fs, i.msg)
        fs2 == export_data(i.fs, Roles(e.list), sub_download_location, download_metadata_file)
        metadata_file == PathJoin(sub_download_location, download_metadata_file)
        f == find_target_metadata(fs2, ROLE, metadata_file, self.target_name)
    IN  IF e.raised THEN RootRaised(self, i.fs, NoFrame, fetches, "IndexError")
        ELSE IF "src" \notin DOMAIN self.target_path_mappings
        THEN RootRaised(self, fs2, NoFrame, fetches, "KeyError")
        ELSE IF self.metadata = None
        THEN RootRaised(self, fs2, NoFrame, fetches, "AttributeError")
        ELSE RootDone([self EXCEPT !.metadata = f.md], fs2,
                      [install_msg |-> i.msg,
                       dst_src_dir |-> self.target_path_mappings["src"],
                       dependency_dir |-> TmpSrcDir(self),
                       metadata_file |-> metadata_file],
                      fetches)

\* a variant of lines 357-394 that takes any kind it does not know for a project
RootFetchAnyKind(self, fs, o) ==
    IF self.target_type = COLLECTION THEN RootFetchCollection(self, fs, o)
    ELSE IF self.target_type = ROLE THEN RootFetchRole(self, fs, o)
    ELSE RootFetchProject(self, fs, o)

\* root_install, lines 353-394
RootFetch(self, fs, o) ==
    IF self.target_type = PROJECT THEN RootFetchProject(self, fs, o)
    ELSE IF self.target_type = COLLECTION THEN RootFetchCollection(self, fs, o)
    ELSE IF self.target_type = ROLE THEN RootFetchRole(self, fs, o)
    ELSE RootRaised(self, fs, NoFrame, <<>>, "ValueError")

\* loader.get_target_name(dep_type, target_path): <namespace>.<name> of a
\* collection directory, the directory name of a role
get_target_name(dep_type, target_path) ==
    LET segs == Split(target_path, "/")
    IN  IF dep_type = COLLECTION /\ Len(segs) >= 2
        THEN segs[Len(segs) - 1] \o <<".">> \o Last(segs)
        ELSE Last(segs)

\* find_ext_dependencies(path): the collections below path, else the roles
\* (safe_glob, trim_suffix; remove_subdirectories drops nested finds)
TrimSuffix(q, suffix) == SubSeq(q, 1, Len(q) - Len(suffix))

Outermost(paths) == {q \in paths : ~\E r \in paths : Below(r, q)}

find_ext_dependencies(fs, path) ==
    LET collection_meta_files ==
            {q \in fs.files : path # <<>> /\ Below(path, q) /\ EndsWith(q, <<"/">> \o collection_manifest_json)}
        role_meta_files ==
            {q \in fs.files : path # <<>> /\ Below(path, q) /\ EndsWith(q, <<"/">> \o role_meta_main_yml)}
    IN  IF collection_meta_files # {}
        THEN [type |-> COLLECTION,
              list |-> Outermost({TrimSuffix(q, <<"/">> \o collection_manifest_json) : q \in collection_meta_files})]
        ELSE IF role_meta_files # {}
        THEN [type |-> ROLE,
              list |-> Outermost({TrimSuffix(q, <<"/">> \o role_meta_main_yml) : q \in role_meta_files})]
        ELSE [type |-> UNKNOWN, list |-> {}]

\* set_index(path): the index, its dependencies in no particular order.
\* On a plain file it raises AttributeError (list.append is assigned to).
set_index_raises(fs, path) == IsFile(fs, path)

set_index(self, fs, path) ==
    LET found == IF Exists(fs, PathJoin(path, collection_manifest_json))
                 THEN [type |-> COLLECTION, list |-> {path}]
                 ELSE IF Exists(fs, PathJoin(path, role_meta_main_yml))
                 THEN [type |-> ROLE, list |-> {path}]
                 ELSE find_ext_dependencies(fs, path)
    IN  [ dependencies |-> {[name |-> get_target_name(found.type, q), type |-> found.type] : q \in found.list},
          path_mappings |-> self.target_path_mappings ]

\* root_install, lines 396-398: __save_install_log writes <tmp>/install.log
RootSaveInstallLog(self, fs, frame) ==
    RootDone([self EXCEPT !.install_log = Some(frame.install_msg)],
             IF self.do_save THEN WriteFiles(fs, {PathJoin(self.tmp_install_dir[1], <<"install", ".", "log">>)})
             ELSE fs,
             frame, <<>>)

\* root_install, line 400
RootSetIndex(self, fs, frame) ==
    IF set_index_raises(fs, frame.dependency_dir)
    THEN RootRaised(self, fs, frame, <<>>, "AttributeError")
    ELSE IF self.target_type \notin supported_target_types
    THEN RootRaised(self, fs, frame, <<>>, "SystemExit")
    ELSE RootDone([self EXCEPT !.index = Some(set_index(self, fs, frame.dependency_dir))], fs, frame, <<>>)

\* root_install, lines 405-406: __save_index reads self.__path_mappings, which
\* inside the class is self._DependencyDirPreparator__path_mappings: no such
\* attribute, AttributeError
RootSaveIndex(self, fs, frame) ==
    IF self.do_save
    THEN RootRaised(self, fs, frame, <<>>, "AttributeError")
    ELSE RootDone(self, fs, frame, <<>>)

\* a variant of lines 407-409 that copies without making the destination first
RootMoveSrcNoMakedirs(self, fs, frame) ==
    IF move_src_raises(fs, TmpSrcDir(self), frame.dst_src_dir)
    THEN RootRaised(self, fs, frame, <<>>, "ValueError")
    ELSE RootDone(self, move_src(fs, TmpSrcDir(self), frame.dst_src_dir), frame, <<>>)

\* root_install, lines 407-409
RootMoveSrc(self, fs, frame) ==
    LET fs1 == EnsureDir(fs, frame.dst_src_dir)
    IN  IF move_src_raises(fs1, TmpSrcDir(self), frame.dst_src_dir)
        THEN RootRaised(self, fs1, frame, <<>>, "ValueError")
        ELSE RootDone(self, move_src(fs1, TmpSrcDir(self), frame.dst_src_dir), frame, <<>>)

\* root_install, lines 410-415
RootRoleUpdate(self, fs, frame) ==
    LET root_dst_src_path == frame.dst_src_dir \o <<"/">> \o self.target_name
        fs1 == update_role_download_src(fs, frame.metadata_file, frame.dst_src_dir)
    IN  IF self.target_type # ROLE THEN RootDone(self, fs, frame, <<>>)
        ELSE IF self.metadata = None THEN RootRaised(self, fs1, frame, <<>>, "AttributeError")
        ELSE RootDone([self EXCEPT !.metadata =
                          Some([self.metadata[1] EXCEPT
                                   !.download_src_path = root_dst_src_path,
                                   !.metafile_path = RoleMetafile(fs1, root_dst_src_path),
                                   !.author = get_author(fs1, ROLE, RoleMetafile(fs1, root_dst_src_path))])],
                      fs1, frame, <<>>)

\* root_install, lines 417-422
RootMoveDependencies(self, fs, frame) ==
    IF ~(self.target_type = PROJECT /\ self.target_dependency_dir # <<>>)
    THEN RootDone(self, fs, frame, <<>>)
    ELSE IF "dependencies" \notin DOMAIN self.target_path_mappings
    THEN RootRaised(self, fs, frame, <<>>, "KeyError")
    ELSE LET dst_dependency_dir == self.target_path_mappings["dependencies"]
             fs1 == EnsureDir(fs, dst_dependency_dir)
         IN  IF move_src_raises(fs1, frame.dependency_dir, dst_dependency_dir)
             THEN RootRaised(self, fs1, frame, <<>>, "ValueError")
             ELSE RootDone(self, move_src(fs1, frame.dependency_dir, dst_dependency_dir), frame, <<>>)

\* setup_tmp_dir: tempfile.TemporaryDirectory() makes a directory that is not there yet
TmpDirName == <<"/", "tmp", "/", "t">>

setup_tmp_dir(self, fs) ==
    IF self.tmp_install_dir = None \/ ~Exists(fs, self.tmp_install_dir[1])
    THEN [self |-> [self EXCEPT !.tmp_install_dir = Some(TmpDirName)], fs |-> Makedirs(fs, TmpDirName)]
    ELSE [self |-> self, fs |-> fs]

\* TemporaryDirectory.cleanup(): the directory and all below it are gone
RemoveTree(fs, d) ==
    [ dirs  |-> {q \in fs.dirs : q # d /\ ~Below(d, q)},
      files |-> {q \in fs.files : ~Below(d, q)},
      meta  |-> [q \in {m \in DOMAIN fs.meta : ~Below(d, m)} |-> fs.meta[q]] ]

\* a variant of clean_tmp_dir that forgets the directory without removing it
clean_tmp_dir_forget(self, fs) ==
    [self |-> [self EXCEPT !.tmp_install_dir = None], fs |-> fs]

\* clean_tmp_dir (lines 698-701)
clean_tmp_dir(self, fs) ==
    IF self.tmp_install_dir # None /\ Exists(fs, self.tmp_install_dir[1])
    THEN [self |-> [self EXCEPT !.tmp_install_dir = None], fs |-> RemoveTree(fs, self.tmp_install_dir[1])]
    ELSE [self |-> self, fs |-> fs]

\* setup_dirs(cache_enabled, cache_dir)
root_dir == <<"/", "r">>

setup_dirs(self, fs, cache_enabled, cache_dir) ==
    LET download_location == PathJoin(root_dir, <<"archives">>)
        fs1 == EnsureDir(fs, download_location)
        fs2 == IF cache_enabled /\ ~Exists(fs1, cache_dir) THEN Makedirs(fs1, cache_dir) ELSE fs1
    IN  [ self |-> [self EXCEPT !.download_location = download_location, !.dependency_dir_path = root_dir],
          fs   |-> EnsureDir(fs2, root_dir) ]

\* ------------------------------------------------------------------------
\* The inputs: the target, what the dependency finder reports for it, the
\* file system the run starts on, what the tools do
\* ------------------------------------------------------------------------

MaxCalls == 2

ColA == <<"ns", ".", "a">>
ColB == <<"ns", ".", "b">>
RoleR == <<"x", ".", "r">>
V1 == <<"1", ".", "0">>
V2 == <<"2", ".", "0">>
CacheDir == <<"/", "c">>
MappedA == <<"/", "m", "/", "ansible_collections", "/", "ns", "/", "a">>
MappedB == <<"/", "m", "/", "ansible_collections", "/", "ns", "/", "b">>
MappedR == <<"/", "m", "/", "x", ".", "r">>
DepDir == <<"/", "d">>

StrDep(n) == [isdict |-> FALSE, hasname |-> TRUE, name |-> n, version |-> <<>>, source |-> <<>>]
DictDep(n, v, src) == [isdict |-> TRUE, hasname |-> TRUE, name |-> n, version |-> v, source |-> src]
NamelessDep == [isdict |-> TRUE, hasname |-> FALSE, name |-> <<>>, version |-> <<>>, source |-> <<>>]

Targets ==
    { [type |-> COLLECTION, name |-> <<"ns", ".", "t">>, version |-> V1, dependency_dir |-> <<>>],
      [type |-> COLLECTION, name |-> <<"/", "p">>, version |-> <<>>, dependency_dir |-> <<>>],
      [type |-> ROLE, name |-> <<"x", ".", "t">>, version |-> <<>>, dependency_dir |-> <<>>],
      [type |-> PROJECT, name |-> <<"https:", "/", "/", "gh", "/", "p">>, version |-> <<>>, dependency_dir |-> DepDir],
      [type |-> PROJECT, name |-> <<"/", "p">>, version |-> <<>>, dependency_dir |-> <<>>],
      [type |-> PLAYBOOK, name |-> <<"/", "p", "/", "site", ".", "yml">>, version |-> <<>>, dependency_dir |-> <<>>] }

\* dependency_finder.find_dependency(target_type, target_path, target_dependency_dir)
FinderResults ==
    { [ dependencies |-> [collections |-> <<StrDep(ColA)>>, roles |-> <<StrDep(RoleR)>>],
        paths |-> [collections |-> <<>>, roles |-> <<>>],
        metadata |-> [collections |-> <<>>] ],
      [ dependencies |-> [collections |-> <<DictDep(ColA, V2, <<>>)>>, roles |-> <<DictDep(RoleR, V1, <<>>)>>],
        paths |-> [collections |-> (ColA :> MappedA), roles |-> (RoleR :> MappedR)],
        metadata |-> [collections |-> (ColA :> [isdict |-> TRUE, download_url |-> <<"https:", "/", "/", "galaxy">>,
                                                 version |-> V2])] ],
      [ dependencies |-> [collections |-> <<StrDep(ColA), StrDep(ColB)>>, roles |-> <<>>],
        paths |-> [collections |-> (ColB :> MappedB), roles |-> <<>>],
        metadata |-> [collections |-> (ColB :> [isdict |-> FALSE, download_url |-> <<>>, version |-> <<>>])] ],
      [ dependencies |-> [collections |-> <<DictDep(<<>>, <<>>, <<"git">>)>>, roles |-> <<NamelessDep>>],
        paths |-> [collections |-> <<>>, roles |-> <<>>],
        metadata |-> [collections |-> <<>>] ] }

\* the directories a finder result names exist
FinderDirs(d) ==
    UNION {Ancestors(d.paths.collections[n]) : n \in DOMAIN d.paths.collections}
        \cup UNION {Ancestors(d.paths.roles[n]) : n \in DOMAIN d.paths.roles}

\* the file systems a run may start on: nothing there; the download
\* directories of the dependencies there; an archive of ns.a there as well
ArchiveDirs ==
    Ancestors(PathJoin4(root_dir, <<"archives">>, <<"collection">>, ColA))
        \cup Ancestors(PathJoin4(root_dir, <<"archives">>, <<"collection">>, ColB))
        \cup Ancestors(PathJoin4(root_dir, <<"archives">>, <<"role">>, RoleR))

Hosts == {<<"galaxy">>}

Outcomes == [ok : BOOLEAN, inst : BOOLEAN, ver : {V1}, host : Hosts]

Worked == [ok |-> TRUE, inst |-> TRUE, ver |-> V1, host |-> <<"galaxy">>]

EmptyFs == [dirs |-> {}, files |-> {}, meta |-> <<>>]

\* the cache as an earlier run with caching enabled left it: ns.a fetched
\* into it (lines 215-218) and x.r installed into it (lines 314-317)
FilledCache ==
    LET cache_location == PathJoin3(CacheDir, <<"collection">>, ColA)
        d == download_galaxy_collection(EmptyFs, ColA, cache_location, <<>>, Worked)
        e == extract_collections_metadata(d.fs, d.msg, cache_location)
        fs1 == export_data(e.fs, Collections(e.list), cache_location, download_metadata_file)
        cache_dir_path == PathJoin4(CacheDir, <<"roles">>, <<"src">>, RoleR)
        i == install_galaxy_target(fs1, RoleR, cache_dir_path, <<>>, Worked)
    IN  export_data(i.fs, Roles(extract_roles_metadata(i.fs, i.msg).list), cache_dir_path, download_metadata_file)

\* the cache as an earlier run left it when the role x.r has the role x.t for
\* a dependency of its own: ansible-galaxy installed both into the place of
\* x.r and logged both, and both were recorded there (lines 314-317)
RoleT == <<"x", ".", "t">>

CacheWithRoleDependency ==
    LET cache_dir_path == PathJoin(PathJoin(PathJoin(CacheDir, <<"roles">>), <<"src">>), RoleR)
        i1 == install_galaxy_target(EmptyFs, RoleR, cache_dir_path, <<>>, Worked)
        i2 == install_galaxy_target(i1.fs, RoleT, cache_dir_path, <<>>, Worked)
    IN  export_data(i2.fs, Roles(extract_roles_metadata(i2.fs, i1.msg \o i2.msg).list),
                    cache_dir_path, download_metadata_file)

InitialFileSystems ==
    { EmptyFs,
      CacheWithRoleDependency,
      [dirs |-> ArchiveDirs, files |-> {}, meta |-> <<>>],
      [dirs |-> ArchiveDirs,
       files |-> {PathJoin(PathJoin4(root_dir, <<"archives">>, <<"collection">>, ColA), ArchiveName(ColA, V1))},
       meta |-> <<>>],
      FilledCache }

\* utils.get_installed_metadata(type, name, path, dependency_dir): (download_url, version)
InstalledMetadata ==
    { [download_url |-> <<>>, version |-> <<>>],
      [download_url |-> <<"https:", "/", "/", "galaxy">>, version |-> V1] }

\* ------------------------------------------------------------------------
\* The state
\* ------------------------------------------------------------------------

VARIABLES
    self,           \* the DependencyDirPreparator
    fs,             \* the file system
    declared,       \* what find_dependency reports for the target
    pc,             \* where the call of prepare_dir stands
    args,           \* the arguments of the call
    dependencies,   \* prepare_dir's local
    idx,            \* the position of the loop it is in
    frame,          \* root_install's locals
    exc,            \* the exception on its way out, "" for none
    fetches,        \* the fetches of this call, in order
    events,         \* the passes over the dependencies, of every call
    returned,       \* what each call returned, when it returned
    calls,          \* the calls so far
    ops,            \* the operations on the metadata store, with what they gave
    lookups         \* what get_installed_metadata gave in this call, in order

vars == <<self, fs, declared, pc, args, dependencies, idx, frame, exc, fetches, events, returned, calls, ops, lookups>>

NoDependencies ==
    [dependencies |-> [collections |-> <<>>, roles |-> <<>>],
     paths |-> [collections |-> <<>>, roles |-> <<>>],
     metadata |-> [collections |-> <<>>]]

NoArgs == [root_install |-> TRUE, is_src_installed |-> FALSE, cache_enabled |-> FALSE, cache_dir |-> <<>>]

\* DependencyDirPreparator(root_dir=..., target_type=..., ...)
NewPreparator(t, do_save) ==
    [ source_repository |-> <<"repo">>,
      target_type |-> t.type,
      target_name |-> t.name,
      target_version |-> t.version,
      target_path |-> <<>>,
      target_dependency_dir |-> t.dependency_dir,
      target_path_mappings |-> [src |-> <<"/", "r", "/", "src">>,
                                dependencies |-> <<"/", "r", "/", "deps">>,
                                index |-> <<"/", "r", "/", "index", ".", "json">>],
      metadata |-> Some(DownloadMetadata),
      download_location |-> <<>>,
      dependency_dir_path |-> <<>>,
      do_save |-> do_save,
      tmp_install_dir |-> None,
      install_log |-> None,
      index |-> None,
      dependency_dirs |-> <<>> ]

Init ==
    /\ \E t \in Targets, do_save \in BOOLEAN : self = NewPreparator(t, do_save)
    /\ declared \in FinderResults
    /\ \E f \in InitialFileSystems :
          fs = [f EXCEPT !.dirs = @ \cup FinderDirs(declared)
                                    \cup (IF self.target_dependency_dir # <<>>
                                          THEN Ancestors(self.target_dependency_dir) ELSE {})]
    /\ pc = "idle"
    /\ args = NoArgs
    /\ dependencies = NoDependencies
    /\ idx = 1
    /\ frame = NoFrame
    /\ exc = ""
    /\ fetches = <<>>
    /\ events = <<>>
    /\ returned = <<>>
    /\ calls = 0
    /\ ops = <<>>
    /\ lookups = <<>>

\* ------------------------------------------------------------------------
\* prepare_dir, step by step
\* ------------------------------------------------------------------------

Cols == dependencies.dependencies.collections
RoleDeps == dependencies.dependencies.roles

\* where the loops stand once position i of the collections is reached
AfterCollections(deps, i) ==
    IF i <= Len(deps.dependencies.collections) THEN "collections"
    ELSE IF Len(deps.dependencies.roles) >= 1 THEN "roles"
    ELSE "return"

AfterRoles(deps, i) == IF i <= Len(deps.dependencies.roles) THEN "roles" ELSE "return"

\* prepare_dir(root_install, is_src_installed, cache_enabled, cache_dir), lines 111-113.
\* A call after the first repeats the run: it has the arguments of the first.
\* An exception ends the run.
PrepareDir(root_install, is_src_installed, cache_enabled) ==
    /\ pc = "idle"
    /\ calls < MaxCalls
    /\ calls > 0 => /\ root_install = args.root_install
                    /\ is_src_installed = args.is_src_installed
                    /\ cache_enabled = args.cache_enabled
    /\ LET s == setup_dirs(self, fs, cache_enabled, CacheDir)
       IN  /\ self' = s.self
           /\ fs' = s.fs
    /\ args' = [root_install |-> root_install, is_src_installed |-> is_src_installed,
                cache_enabled |-> cache_enabled, cache_dir |-> CacheDir]
    /\ pc' = "prepare_root_dir"
    /\ calls' = calls + 1
    /\ dependencies' = NoDependencies
    /\ idx' = 1
    /\ frame' = NoFrame
    /\ exc' = ""
    /\ fetches' = <<>>
    /\ lookups' = <<>>
    /\ UNCHANGED <<ops, declared, events, returned>>

\* a prepare_root_dir that installs whatever the target is
RootInstallWantedAnyTarget == args.root_install

\* the root_install prepare_root_dir ends up with (lines 142-147)
RootInstallWanted ==
    /\ args.root_install
    /\ ~(self.target_type = PROJECT /\ ~is_url(self.target_name))
    /\ ~(self.target_type \in {COLLECTION, ROLE} /\ is_local_path(self.target_name))

\* a variant of lines 138-139 that resets the version and the url of the
\* target's metadata, as the lookup of lines 153-162 does when it finds nothing
PrepareRootDirInstalledResets ==
    /\ pc = "prepare_root_dir"
    /\ args.is_src_installed
    /\ pc' = "find_dependency"
    /\ self' = [self EXCEPT !.metadata = Some([DownloadMetadata EXCEPT !.version = V1])]
    /\ UNCHANGED <<ops, lookups, fs, declared, args, dependencies, idx, frame, exc, fetches, events, returned, calls>>

\* prepare_root_dir, is_src_installed: nothing to do (lines 138-139)
PrepareRootDirInstalled ==
    /\ pc = "prepare_root_dir"
    /\ args.is_src_installed
    /\ pc' = "find_dependency"
    /\ UNCHANGED <<ops, lookups, self, fs, declared, args, dependencies, idx, frame, exc, fetches, events, returned, calls>>

\* prepare_root_dir, no install: the installed metadata is looked up (lines 153-162)
PrepareRootDirLookup(m) ==
    /\ pc = "prepare_root_dir"
    /\ ~args.is_src_installed
    /\ ~RootInstallWanted
    /\ IF self.metadata = None
       THEN /\ pc' = "raised"
            /\ exc' = "AttributeError"
            /\ self' = self
       ELSE /\ pc' = "find_dependency"
            /\ exc' = exc
            /\ self' = [self EXCEPT !.metadata =
                            Some([self.metadata[1] EXCEPT
                                     !.download_url = m.download_url,
                                     !.version = m.version,
                                     !.hash = IF m.download_url # <<>> THEN get_hash_of_url(m.download_url)
                                              ELSE <<>>])]
    /\ lookups' = Append(lookups, m)
    /\ UNCHANGED <<ops, fs, declared, args, dependencies, idx, frame, fetches, events, returned, calls>>

\* prepare_root_dir calls src_install, which sets the staging directory up (lines 149-150, 345-347)
SrcInstall ==
    /\ pc = "prepare_root_dir"
    /\ ~args.is_src_installed
    /\ RootInstallWanted
    /\ LET s == setup_tmp_dir(self, fs)
       IN  /\ self' = s.self
           /\ fs' = s.fs
    /\ pc' = "root_install"
    /\ UNCHANGED <<ops, lookups, declared, args, dependencies, idx, frame, exc, fetches, events, returned, calls>>

\* a step of root_install done: on to next, or out through the finally
RootStep(res, next) ==
    /\ self' = res.self
    /\ fs' = res.fs
    /\ frame' = res.frame
    /\ exc' = res.exc
    /\ fetches' = fetches \o res.fetches
    /\ pc' = IF res.raised THEN "clean_tmp_dir" ELSE next
    /\ UNCHANGED <<ops, lookups, declared, args, dependencies, idx, events, returned, calls>>

RootInstallFetch(o) == pc = "root_install" /\ RootStep(RootFetch(self, fs, o), "save_install_log")

RootInstallSaveLog == pc = "save_install_log" /\ RootStep(RootSaveInstallLog(self, fs, frame), "set_index")

RootInstallSetIndex == pc = "set_index" /\ RootStep(RootSetIndex(self, fs, frame), "save_index")

RootInstallSaveIndex == pc = "save_index" /\ RootStep(RootSaveIndex(self, fs, frame), "move_src")

RootInstallMoveSrc == pc = "move_src" /\ RootStep(RootMoveSrc(self, fs, frame), "role_update")

RootInstallRoleUpdate == pc = "role_update" /\ RootStep(RootRoleUpdate(self, fs, frame), "move_dependencies")

RootInstallMoveDependencies ==
    pc = "move_dependencies" /\ RootStep(RootMoveDependencies(self, fs, frame), "clean_tmp_dir")

\* src_install's finally (lines 349-351), then back in prepare_dir or out of it
CleanTmpDir ==
    /\ pc = "clean_tmp_dir"
    /\ LET c == clean_tmp_dir(self, fs)
       IN  /\ self' = c.self
           /\ fs' = c.fs
    /\ pc' = IF exc # "" THEN "raised" ELSE "find_dependency"
    /\ UNCHANGED <<ops, lookups, declared, args, dependencies, idx, frame, exc, fetches, events, returned, calls>>

\* dependencies = find_dependency(...) (line 117)
FindDependency ==
    /\ pc = "find_dependency"
    /\ dependencies' = declared
    /\ idx' = 1
    /\ pc' = AfterCollections(declared, 1)
    /\ UNCHANGED <<ops, lookups, self, fs, declared, args, frame, exc, fetches, events, returned, calls>>

Event(kind, name, st, before) ==
    [call |-> calls, kind |-> kind, name |-> name, branch |-> st.branch, raised |-> st.raised, exc |-> st.exc,
     fetches |-> st.fetches, dep |-> st.dep, before |-> before, after |-> st.fs]

\* a variant of lines 269 and 342 that keeps the latest descriptor only
KeepLatestDescriptor(dependency_dirs, downloaded_dep) == <<downloaded_dep>>

\* self.dependency_dirs.append(asdict(downloaded_dep)) (lines 269, 342): asdict
\* builds a new dict, the metadata in it a new dict as well, so what is
\* appended shares nothing with downloaded_dep
AppendDescriptor(dependency_dirs, downloaded_dep) == Append(dependency_dirs, downloaded_dep)

\* a pass over a dependency done: the descriptor appended, or the exception out
DependencyStep(kind, name, st, next) ==
    /\ fs' = st.fs
    /\ fetches' = fetches \o st.fetches
    /\ events' = Append(events, Event(kind, name, st, fs))
    /\ exc' = st.exc
    /\ IF st.raised
       THEN /\ pc' = "raised"
            /\ self' = self
            /\ idx' = idx
       ELSE /\ pc' = next
            /\ self' = [self EXCEPT !.dependency_dirs = AppendDescriptor(@, st.dep)]
            /\ idx' = IF next = pc THEN idx + 1 ELSE 1
    /\ UNCHANGED <<ops, lookups, declared, args, dependencies, frame, returned, calls>>

\* one pass of the loop over the collections
PrepareCollection(o) ==
    /\ pc = "collections"
    /\ \E r \in ColExistResults(self, fs, args, dependencies, Cols[idx]) :
          DependencyStep(COLLECTION, Some(ColName(Cols[idx])),
                         ColStep(self, fs, args, dependencies, Cols[idx], r, o),
                         AfterCollections(dependencies, idx + 1))

\* one pass of the loop over the roles
PrepareRole(o) ==
    /\ pc = "roles"
    /\ \E r \in RoleExistResults(self, fs, args, dependencies, RoleDeps[idx]) :
          DependencyStep(ROLE, IF RoleDeps[idx].hasname THEN Some(RoleDeps[idx].name) ELSE None,
                         RoleStep(self, fs, args, dependencies, RoleDeps[idx], r, o),
                         AfterRoles(dependencies, idx + 1))

\* return self.dependency_dirs (line 120)
Return ==
    /\ pc = "return"
    /\ returned' = Append(returned, self.dependency_dirs)
    /\ pc' = "idle"
    /\ UNCHANGED <<ops, lookups, self, fs, declared, args, dependencies, idx, frame, exc, fetches, events, calls>>

Next ==
    \/ \E root_install \in BOOLEAN, is_src_installed \in BOOLEAN, cache_enabled \in BOOLEAN :
          PrepareDir(root_install, is_src_installed, cache_enabled)
    \/ PrepareRootDirInstalled
    \/ \E m \in InstalledMetadata : PrepareRootDirLookup(m)
    \/ SrcInstall
    \/ \E o \in Outcomes : RootInstallFetch(o)
    \/ RootInstallSaveLog
    \/ RootInstallSetIndex
    \/ RootInstallSaveIndex
    \/ RootInstallMoveSrc
    \/ RootInstallRoleUpdate
    \/ RootInstallMoveDependencies
    \/ CleanTmpDir
    \/ FindDependency
    \/ \E o \in Outcomes : PrepareCollection(o)
    \/ \E o \in Outcomes : PrepareRole(o)
    \/ Return

Spec == Init /\ [][Next]_vars

\* ------------------------------------------------------------------------
\* The metadata store on its own: export_data, find_target_metadata and
\* update_metadata called on one metadata file, in any order.  ops holds the
\* calls made, each with its arguments and what it gave.
\* ------------------------------------------------------------------------

MaxOps == 3

StoreDir == <<"/", "s">>
StoreFile == PathJoin(StoreDir, download_metadata_file)

\* asdict(DownloadMetadata(type=..., name=..., version=...))
RecordOf(type, name, version) ==
    [DownloadMetadata EXCEPT !.type = type, !.name = name, !.version = version]

\* what is exported: one record, two records, two records of one name
StoreData ==
    { Collections(<<RecordOf(COLLECTION, ColA, V1)>>),
      Collections(<<RecordOf(COLLECTION, ColA, V1), RecordOf(COLLECTION, ColB, V1)>>),
      Collections(<<RecordOf(COLLECTION, ColA, V1), RecordOf(COLLECTION, ColA, V2)>>),
      Roles(<<RecordOf(ROLE, ColA, V1)>>) }

\* the type and target a lookup is made with
StoreLookups ==
    { [type |-> COLLECTION, target |-> ColA],
      [type |-> COLLECTION, target |-> ColB],
      [type |-> ROLE, target |-> ColA],
      [type |-> PROJECT, target |-> ColA] }

\* the type and target an update is made with
StoreUpdateTargets ==
    { [type |-> COLLECTION, target |-> ColA],
      [type |-> ROLE, target |-> ColA],
      [type |-> PROJECT, target |-> ColA] }

\* the key and value an update is made with: fields of the schema, a key
\* that is no attribute, an attribute every object has
StoreUpdates ==
    { [key |-> "version", value |-> V2],
      [key |-> "name", value |-> ColB],
      [key |-> "cache_enabled", value |-> TRUE],
      [key |-> "no_such_field", value |-> V2],
      [key |-> "__class__", value |-> V2] }

NoUpdate == [key |-> "", value |-> <<>>]

Op(op, data, l, u, raised, md, before) ==
    [op |-> op, data |-> data, type |-> l.type, target |-> l.target, key |-> u.key, value |-> u.value,
     raised |-> raised, md |-> md, before |-> before]

StoreInit ==
    /\ self = NewPreparator([type |-> COLLECTION, name |-> ColA, version |-> <<>>, dependency_dir |-> <<>>], FALSE)
    /\ fs = EmptyFs
    /\ declared = NoDependencies
    /\ pc = "store"
    /\ args = NoArgs
    /\ dependencies = NoDependencies
    /\ idx = 1
    /\ frame = NoFrame
    /\ exc = ""
    /\ fetches = <<>>
    /\ events = <<>>
    /\ returned = <<>>
    /\ calls = 0
    /\ ops = <<>>
    /\ lookups = <<>>

StoreUnchanged ==
    UNCHANGED <<lookups, self, declared, pc, args, dependencies, idx, frame, exc, fetches, events, returned, calls>>

\* self.export_data(data, StoreDir, download_metadata_file)
ExportData(data) ==
    /\ pc = "store"
    /\ Len(ops) < MaxOps
    /\ fs' = export_data(fs, data, StoreDir, download_metadata_file)
    /\ ops' = Append(ops, Op("export", data, [type |-> <<>>, target |-> <<>>], NoUpdate, FALSE, None, fs))
    /\ StoreUnchanged

\* self.find_target_metadata(type, StoreFile, target)
FindTargetMetadata(l) ==
    /\ pc = "store"
    /\ Len(ops) < MaxOps
    /\ LET f == find_target_metadata(fs, l.type, StoreFile, l.target)
       IN  ops' = Append(ops, Op("find", <<>>, l, NoUpdate, f.raised, f.md, fs))
    /\ fs' = fs
    /\ StoreUnchanged

\* self.update_metadata(type, StoreFile, target, key, value)
UpdateMetadata(l, u) ==
    /\ pc = "store"
    /\ Len(ops) < MaxOps
    /\ LET r == update_metadata(fs, l.type, StoreFile, l.target, u.key, u.value)
       IN  /\ fs' = r.fs
           /\ ops' = Append(ops, Op("update", <<>>, l, u, r.raised, None, fs))
    /\ StoreUnchanged

StoreNext ==
    \/ \E data \in StoreData : ExportData(data)
    \/ \E l \in StoreLookups : FindTargetMetadata(l)
    \/ \E l \in StoreUpdateTargets, u \in StoreUpdates : UpdateMetadata(l, u)

StoreSpec == StoreInit /\ [][StoreNext]_vars


\* ------------------------------------------------------------------------
\* Properties of prepare_dir.  events holds one entry per pass over a
\* dependency: the call it belongs to, the file system before and after it,
\* the branch taken, the fetches issued, the descriptor appended.
\* ------------------------------------------------------------------------

\* the records named name that the metadata files of the cache hold in f
CacheRecords(f, type, name) ==
    {find_target_metadata(f, type, m, name).md[1] :
        m \in {q \in DOMAIN f.meta : Below(CacheDir, q)
                                     /\ find_target_metadata(f, type, q, name).md # None}}

\* the passes that found a record of their dependency in the cache
CacheHits == {i \in 1..Len(events) : /\ args.cache_enabled
                                     /\ events[i].name # None
                                     /\ CacheRecords(events[i].before, events[i].kind, events[i].name[1]) # {}}

\* C1: with caching enabled and a record named as the dependency in the cache,
\* the pass over the dependency issues no fetch and appends a descriptor whose
\* metadata carries the archive path of the cached record, for a collection
\* and for a role alike.
C1_CacheHitReusesArchive ==
    \A i \in CacheHits :
        /\ events[i].fetches = <<>>
        /\ ~events[i].raised
        /\ \E rec \in CacheRecords(events[i].before, events[i].kind, events[i].name[1]) :
               events[i].dep.metadata.download_src_path = rec.download_src_path

\* C1, the part that holds: a cache hit issues no fetch; and the descriptor of
\* a collection carries the recorded archive path
C1_CacheHitNoFetch ==
    \A i \in CacheHits :
        /\ events[i].fetches = <<>>
        /\ events[i].kind = COLLECTION =>
              /\ ~events[i].raised
              /\ \E rec \in CacheRecords(events[i].before, COLLECTION, events[i].name[1]) :
                     /\ events[i].dep.metadata.download_src_path = rec.download_src_path
                     /\ events[i].dep.metadata.cache_dir = rec.download_src_path

\* C1: a role found in the cache, its descriptor appended
C1_RoleCacheHit ==
    \E i \in CacheHits : events[i].kind = ROLE /\ ~events[i].raised

\* C1: a collection found in the cache, its descriptor appended
C1_CollectionCacheHit ==
    \E i \in CacheHits : events[i].kind = COLLECTION /\ ~events[i].raised /\ events[i].dep.metadata.version = V1


\* every record named name that a metadata file holds in f
Records(f, type, name) ==
    {find_target_metadata(f, type, m, name).md[1] :
        m \in {q \in DOMAIN f.meta : find_target_metadata(f, type, q, name).md # None}}

\* the finder's path mapping for the dependencies of a kind
Mapping(kind) == IF kind = COLLECTION THEN declared.paths.collections ELSE declared.paths.roles

\* the directory made for a dependency before its branch is chosen
DefaultSubDir(kind, name) ==
    IF kind = COLLECTION THEN PathJoin3(root_dir, <<"collections">>, <<"src">>)
    ELSE PathJoin4(root_dir, <<"roles">>, <<"src">>, name)

\* the declared dependencies, collections then roles, as kind and name
DeclaredNames ==
    [i \in 1..Len(declared.dependencies.collections) |->
        [kind |-> COLLECTION, name |-> Some(ColName(declared.dependencies.collections[i]))]]
    \o [i \in 1..Len(declared.dependencies.roles) |->
        [kind |-> ROLE, name |-> IF declared.dependencies.roles[i].hasname
                                 THEN Some(declared.dependencies.roles[i].name) ELSE None]]

AllMapped ==
    /\ DeclaredNames # <<>>
    /\ \A i \in 1..Len(DeclaredNames) :
          /\ DeclaredNames[i].name # None
          /\ DeclaredNames[i].name[1] \in DOMAIN Mapping(DeclaredNames[i].kind)

\* the passes over a dependency that has a name
Named == {i \in 1..Len(events) : events[i].name # None}

FullyCachedAtStart ==
    /\ events # <<>>
    /\ \A i \in 1..Len(DeclaredNames) :
          /\ DeclaredNames[i].name # None
          /\ CacheRecords(events[1].before, DeclaredNames[i].kind, DeclaredNames[i].name[1]) # {}

\* C3 as stated: two calls with the same arguments on a fully cached
\* dependency set return the same list, and the passes of the second call
\* issue no fetch.
C3_SecondCallIdentical ==
    (Len(returned) = 2 /\ args.cache_enabled /\ FullyCachedAtStart) =>
        /\ returned[2] = returned[1]
        /\ \A i \in 1..Len(events) : events[i].call = 2 => events[i].fetches = <<>>

\* C3, what holds instead: the second call issues no fetch for a dependency
\* and returns the descriptors of the first call followed by its own, which
\* are the same descriptors again
C3_SecondCallAppends ==
    (Len(returned) = 2 /\ args.cache_enabled /\ FullyCachedAtStart) =>
        /\ returned[2] = returned[1] \o returned[1]
        /\ \A i \in 1..Len(events) : events[i].call = 2 => events[i].fetches = <<>>

\* C3: the second call has returned, on a fully cached set of two dependencies
C3_TwiceOnFullCache ==
    /\ Len(returned) = 2
    /\ args.cache_enabled
    /\ FullyCachedAtStart
    /\ Len(returned[1]) = 2

\* C4 as stated: a descriptor appended has a directory that is not empty and
\* exists; <base>/ansible_collections/<namespace>/<name> for a collection,
\* <base>/<role-name> for a role.
C4_DirExistsWhenAppended ==
    \A i \in Named :
        LET e == events[i]
            name == e.name[1]
        IN  ~e.raised =>
                /\ e.dep.dir # <<>>
                /\ IsDir(e.after, e.dep.dir)
                /\ e.kind = COLLECTION =>
                      /\ Len(Split(name, ".")) >= 2
                      /\ EndsWith(e.dep.dir, <<"/", "ansible_collections", "/">> \o Split(name, ".")[1]
                                                 \o <<"/">> \o Split(name, ".")[2])
                /\ e.kind = ROLE => EndsWith(e.dep.dir, <<"/">> \o name)

\* C4, the part that holds: the shape of the directory, when it is not empty;
\* and the directory of a role exists
C4_DirShape ==
    \A i \in Named :
        LET e == events[i]
            name == e.name[1]
        IN  (~e.raised /\ e.dep.dir # <<>>) =>
                /\ e.kind = COLLECTION =>
                      /\ Len(Split(name, ".")) >= 2
                      /\ EndsWith(e.dep.dir, <<"/", "ansible_collections", "/">> \o Split(name, ".")[1]
                                                 \o <<"/">> \o Split(name, ".")[2])
                /\ e.kind = ROLE => /\ EndsWith(e.dep.dir, <<"/">> \o name)
                                    /\ IsDir(e.after, e.dep.dir)

\* C4: a descriptor appended after a fetch that left nothing
C4_AppendedAfterFailedFetch ==
    \E i \in Named : /\ ~events[i].raised
                     /\ events[i].fetches # <<>>
                     /\ ~IsDir(events[i].after, events[i].dep.dir)

\* C5 as stated: after a fetch that leaves no record of the dependency, the
\* pass does not raise: its descriptor is appended and the loop goes on.
C5_MissingRecordNoAbort ==
    \A i \in Named :
        (events[i].fetches # <<>> /\ Records(events[i].after, events[i].kind, events[i].name[1]) = {})
            => ~events[i].raised

\* C5, the part that holds: outside the cache branch of a collection, a
\* dependency named <namespace>.<name> with no record after its fetch is appended
C5_MissingRecordOutsideCollectionCache ==
    \A i \in Named :
        (/\ events[i].fetches # <<>>
         /\ Records(events[i].after, events[i].kind, events[i].name[1]) = {}
         /\ ~(events[i].kind = COLLECTION /\ events[i].branch = "cache")
         /\ Len(Split(events[i].name[1], ".")) >= 2)
            => ~events[i].raised

\* C5: the cache branch of a collection raised after a fetch that left no record
C5_CollectionCacheAborts ==
    \E i \in Named : /\ events[i].kind = COLLECTION
                     /\ events[i].branch = "cache"
                     /\ events[i].fetches # <<>>
                     /\ events[i].raised
                     /\ events[i].exc = "AttributeError"
                     /\ events[i].name[1] = ColA


\* the branch the stated priority gives a dependency: the cache when caching
\* is enabled, else the finder's path when it gives one, else the default
Priority(kind, name) ==
    IF args.cache_enabled THEN "cache"
    ELSE IF name \in DOMAIN Mapping(kind) THEN "paths"
    ELSE "default"

\* C6: a pass over a dependency runs the one branch the priority gives it,
\* and every fetch it issues is that branch's: into the cache directory in the
\* cache branch, none in the paths branch, into the root directory (never the
\* cache) in the default branch.
C6_OneBranchByPriority ==
    \A i \in Named :
        LET e == events[i]
            branch == Priority(e.kind, e.name[1])
        IN  /\ e.branch = branch
            /\ \A k \in 1..Len(e.fetches) :
                  /\ branch # "paths"
                  /\ branch = "cache" => Below(CacheDir, e.fetches[k].dir)
                  /\ branch = "default" => /\ Below(root_dir, e.fetches[k].dir)
                                           /\ ~Below(CacheDir, e.fetches[k].dir)
            /\ Len(e.fetches) <= 1

\* C6: caching enabled and the dependency in the finder's path mapping as
\* well: the cache branch ran and fetched into the cache
C6_CacheBeforePaths ==
    \E i \in Named : /\ events[i].name[1] \in DOMAIN Mapping(events[i].kind)
                     /\ events[i].branch = "cache"
                     /\ events[i].fetches # <<>>
                     /\ ~events[i].raised

\* C6: in one call a dependency went through the paths branch and another
\* through the default branch, which fetched
C6_PathsAndDefault ==
    \E i, j \in Named : /\ events[i].branch = "default"
                        /\ events[i].fetches # <<>>
                        /\ events[j].branch = "paths"

\* where src_install is under way: between setup_tmp_dir and the end of the finally
InSrcInstall ==
    pc \in {"root_install", "save_install_log", "set_index", "save_index", "move_src",
            "role_update", "move_dependencies", "clean_tmp_dir"}

\* C7: outside src_install the staging directory is released, however
\* root_install ended: tmp_install_dir is None and nothing is left at or
\* below the directory.
C7_TmpDirReleased ==
    ~InSrcInstall =>
        /\ self.tmp_install_dir = None
        /\ \A q \in Entries(fs) : q # TmpDirName /\ ~Below(TmpDirName, q)

\* C7: root_install raised after its fetch, and src_install has ended
C7_RaisedAfterFetch ==
    /\ pc = "raised"
    /\ exc = "AttributeError"
    /\ events = <<>>
    /\ fetches # <<>>
    /\ self.install_log # None

\* C7: root_install returned, and src_install has ended
C7_ReturnedFromRootInstall ==
    /\ pc = "find_dependency"
    /\ fetches # <<>>
    /\ self.install_log # None

\* C8: the list the first call on a fresh preparator returns has one
\* descriptor for each declared dependency, the collections in their order and
\* then the roles in theirs, each with the name declared.
C8_OnePerDeclared ==
    Len(returned) >= 1 =>
        /\ Len(returned[1]) = Len(DeclaredNames)
        /\ \A k \in 1..Len(DeclaredNames) :
              /\ DeclaredNames[k].name # None
              /\ returned[1][k].name = DeclaredNames[k].name[1]
              /\ returned[1][k].metadata.type = DeclaredNames[k].kind

\* C8: the first call returned two descriptors, the collection's before the role's
C8_ReturnedTwo ==
    /\ Len(returned) >= 1
    /\ Len(returned[1]) = 2
    /\ returned[1][1].name = ColA
    /\ returned[1][2].name = RoleR


\* ------------------------------------------------------------------------
\* Properties of the metadata store
\* ------------------------------------------------------------------------

\* the records data holds for a type
ExportedList(data, type) == PyGet(data, ListKey(type), <<>>)

\* the calls that came right after a call of kind op
After(op) == {i \in 2..Len(ops) : ops[i - 1].op = op}

\* C9: find_target_metadata right after export_data, on the file exported and
\* for a name the exported data holds under the type asked for, returns a
\* record equal to the exported record of that name (the first of them).
C9_ExportThenFind ==
    \A i \in After("export") :
        LET list == ExportedList(ops[i - 1].data, ops[i].type)
            named == {k \in 1..Len(list) : list[k].name = ops[i].target}
        IN  (ops[i].op = "find" /\ ops[i].type \in {COLLECTION, ROLE} /\ named # {}) =>
                /\ ~ops[i].raised
                /\ ops[i].md # None
                /\ ops[i].md[1] = list[CHOOSE k \in named : \A j \in named : k <= j]

\* C9: two records exported, the second looked up and found
C9_FoundSecondExported ==
    /\ Len(ops) >= 2
    /\ ops[1].op = "export"
    /\ Len(ExportedList(ops[1].data, COLLECTION)) = 2
    /\ ops[2].op = "find"
    /\ ops[2].target = ColB
    /\ ops[2].md = Some(RecordOf(COLLECTION, ColB, V1))

\* the lookups made right after an update, with the type and target of the
\* update, the file holding a record of the target before the update
FindAfterUpdate ==
    {i \in After("update") :
        /\ ops[i].op = "find"
        /\ ops[i].type = ops[i - 1].type
        /\ ops[i].target = ops[i - 1].target
        /\ ~find_target_metadata(ops[i - 1].before, ops[i].type, StoreFile, ops[i].target).raised
        /\ find_target_metadata(ops[i - 1].before, ops[i].type, StoreFile, ops[i].target).md # None}

\* the record of the target before the update that came before call i
Old(i) == find_target_metadata(ops[i - 1].before, ops[i].type, StoreFile, ops[i].target).md[1]

C10_UnknownKeyIgnored ==
    /\ Len(ops) = 3
    /\ ops[2].key = "no_such_field"
    /\ 3 \in FindAfterUpdate


\* ------------------------------------------------------------------------
\* prepare_root_dir
\* ------------------------------------------------------------------------

\* the target is a project that is no URL, or a collection or role given by a local path
LocalTarget ==
    \/ self.target_type = PROJECT /\ ~is_url(self.target_name)
    \/ self.target_type \in {COLLECTION, ROLE} /\ is_local_path(self.target_name)

InstallRequested == args.root_install /\ ~args.is_src_installed /\ ~LocalTarget

\* prepare_root_dir ends without having called src_install
InstallSkipped == pc = "prepare_root_dir" /\ pc' # "root_install"

\* the metadata of the target holds what the one lookup of this call gave
LookupStored(s, l) ==
    /\ Len(l) = 1
    /\ s.metadata # None
    /\ s.metadata[1].download_url = l[1].download_url
    /\ s.metadata[1].version = l[1].version
    /\ s.metadata[1].hash = (IF l[1].download_url = <<>> THEN <<>> ELSE get_hash_of_url(l[1].download_url))

\* C11, as stated: prepare_root_dir calls src_install if and only if
\* root_install is requested, the source is not flagged as installed and the
\* target is neither a non-URL project nor a local-path collection or role;
\* whenever the install is skipped no fetch is issued and the installed
\* metadata is looked up and stored on the target's metadata.
C11_SkipAlwaysLooksUp ==
    [][/\ pc = "prepare_root_dir" => ((pc' = "root_install") <=> InstallRequested)
       /\ InstallSkipped => /\ fetches' = <<>>
                            /\ fs' = fs
                            /\ LookupStored(self', lookups')]_vars

\* C11, amended: prepare_root_dir calls src_install if and only if
\* root_install is requested, the source is not flagged as installed and the
\* target is neither a non-URL project nor a local-path collection or role.
\* When the install is skipped no fetch is issued; the installed metadata is
\* looked up and stored only if the source is not flagged as installed, and
\* with the flag nothing is looked up and the target's metadata is left as it is.
C11_SkipLooksUpUnlessFlagged ==
    [][/\ pc = "prepare_root_dir" => ((pc' = "root_install") <=> InstallRequested)
       /\ InstallSkipped => /\ fetches' = <<>>
                            /\ fs' = fs
                            /\ IF args.is_src_installed
                               THEN lookups' = <<>> /\ self' = self
                               ELSE LookupStored(self', lookups')]_vars

\* a local project, root_install asked for: the install was skipped and the
\* URL found in place is on the metadata with its hash
C11_LocalProjectLookedUp ==
    /\ pc = "find_dependency"
    /\ args.root_install
    /\ ~args.is_src_installed
    /\ self.target_type = PROJECT
    /\ ~is_url(self.target_name)
    /\ fetches = <<>>
    /\ Len(lookups) = 1
    /\ lookups[1].download_url # <<>>
    /\ self.metadata[1].hash = get_hash_of_url(lookups[1].download_url)


\* ------------------------------------------------------------------------
\* The default branch
\* ------------------------------------------------------------------------

\* <root>/archives/<type>/<name>
DefaultLocation(kind, name) == PathJoin4(root_dir, <<"archives">>, kind, name)

\* an archive of the name lies in the default download location in f
ArchiveMatches(f, kind, name) ==
    \E q \in f.files : /\ ChildOf(DefaultLocation(kind, name), q)
                       /\ EndsWith(q, dot_tar_gz)
                       /\ Contains(BaseName(q), Replace(name, <<".">>, <<"-">>))

\* the passes with caching disabled over a name the finder maps to no path
Unmapped == {i \in Named : ~args.cache_enabled /\ events[i].name[1] \notin DOMAIN Mapping(events[i].kind)}

\* C12: with caching disabled and no path mapping for the name, a pass whose
\* default download location holds a matching archive issues no fetch; any
\* other pass, the location existing or not, issues exactly one fetch into the
\* default location, persists the metadata there and appends its descriptor.
C12_DefaultReusesOrFetchesOnce ==
    \A i \in Unmapped :
        LET e == events[i]
            loc == DefaultLocation(e.kind, e.name[1])
        IN  IF ArchiveMatches(e.before, e.kind, e.name[1])
            THEN e.fetches = <<>>
            ELSE /\ ~e.raised
                 /\ Len(e.fetches) = 1
                 /\ e.fetches[1].dir = loc
                 /\ PathJoin(loc, download_metadata_file) \in DOMAIN e.after.meta

\* C12, the part that holds: a matching archive means no fetch.  Without one,
\* a pass over a name of the form <namespace>.<name> whose default location
\* exists issues exactly one fetch, a collection's into the default location
\* and a role's into its dependency directory, persists the metadata in the
\* default location and appends its descriptor; a pass whose default location
\* does not exist raises FileNotFoundError before any fetch.
C12_DefaultOnExistingLocation ==
    \A i \in Unmapped :
        LET e == events[i]
            loc == DefaultLocation(e.kind, e.name[1])
        IN  /\ e.branch = "default"
            /\ ArchiveMatches(e.before, e.kind, e.name[1]) => e.fetches = <<>>
            /\ (/\ ~ArchiveMatches(e.before, e.kind, e.name[1])
                /\ IsDir(e.before, loc)
                /\ Len(Split(e.name[1], ".")) >= 2) =>
                    /\ ~e.raised
                    /\ Len(e.fetches) = 1
                    /\ e.fetches[1].dir = (IF e.kind = COLLECTION THEN loc ELSE DefaultSubDir(ROLE, e.name[1]))
                    /\ PathJoin(loc, download_metadata_file) \in DOMAIN e.after.meta
            /\ ~IsDir(e.before, loc) =>
                    /\ e.raised
                    /\ e.exc = "FileNotFoundError"
                    /\ e.fetches = <<>>

\* C12: the default location of ns.a did not exist and the pass raised
C12_FreshLocationRaises ==
    \E i \in Unmapped : /\ events[i].kind = COLLECTION
                        /\ events[i].name[1] = ColA
                        /\ ~IsDir(events[i].before, DefaultLocation(COLLECTION, ColA))
                        /\ events[i].raised
                        /\ events[i].exc = "FileNotFoundError"
                        /\ events[i].fetches = <<>>

\* C12: the default location existed without an archive, and one fetch went into it
C12_FetchedIntoDefaultLocation ==
    \E i \in Unmapped : /\ events[i].kind = COLLECTION
                        /\ IsDir(events[i].before, DefaultLocation(COLLECTION, events[i].name[1]))
                        /\ ~events[i].raised
                        /\ Len(events[i].fetches) = 1
                        /\ events[i].fetches[1].dir = DefaultLocation(COLLECTION, events[i].name[1])


\* ------------------------------------------------------------------------
\* Lookups that find nothing
\* ------------------------------------------------------------------------

\* the metadata file a pass looks its record up in when it fetches nothing:
\* a collection with an archive in its default location (line 249), a role
\* with a filled cache directory (line 310)
LookupFile(e) ==
    IF e.kind = COLLECTION
    THEN PathJoin(DefaultLocation(COLLECTION, self.target_name), download_metadata_file)
    ELSE PathJoin(PathJoin4(CacheDir, <<"roles">>, <<"src">>, e.name[1]), download_metadata_file)

\* the target that lookup asks for (lines 251, 311)
LookupTarget(e) == IF e.kind = COLLECTION THEN e.name[1] ELSE self.target_name

\* the passes that make such a lookup
LookupPasses ==
    {i \in Named :
        \/ /\ events[i].kind = COLLECTION
           /\ i \in Unmapped
           /\ Len(Split(events[i].name[1], ".")) >= 2
           /\ ArchiveMatches(events[i].before, COLLECTION, events[i].name[1])
        \/ /\ events[i].kind = ROLE
           /\ args.cache_enabled
           /\ \E q \in Entries(events[i].before) :
                  ChildOf(PathJoin4(CacheDir, <<"roles">>, <<"src">>, events[i].name[1]), q)}

FileMissing(e) == LookupFile(e) \notin DOMAIN e.before.meta

RecordMissing(e) ==
    /\ ~FileMissing(e)
    /\ \A k \in 1..Len(PyGet(JsonLoad(e.before.meta[LookupFile(e)]), ListKey(e.kind), <<>>)) :
          PyGet(JsonLoad(e.before.meta[LookupFile(e)]), ListKey(e.kind), <<>>)[k].name # LookupTarget(e)

\* the metadata a descriptor starts with, the source repository set
EmptyMetadata(e) ==
    [DownloadMetadata EXCEPT !.type = e.kind, !.name = e.name[1], !.cache_enabled = args.cache_enabled,
                             !.source_repository = self.source_repository]

\* C13: a lookup that finds no metadata file or no record of its target is a
\* soft miss: the pass does not raise and appends its descriptor with empty
\* metadata.
C13_MissIsSoft ==
    \A i \in LookupPasses :
        (FileMissing(events[i]) \/ RecordMissing(events[i])) =>
            /\ ~events[i].raised
            /\ events[i].dep.metadata = EmptyMetadata(events[i])

\* C13, the part that holds: a missing record in a file that is there is a
\* soft miss; a missing file makes the pass raise FileNotFoundError.
C13_MissingRecordIsSoft ==
    \A i \in LookupPasses :
        /\ RecordMissing(events[i]) =>
              /\ ~events[i].raised
              /\ events[i].dep.metadata = EmptyMetadata(events[i])
        /\ FileMissing(events[i]) =>
              /\ events[i].raised
              /\ events[i].exc = "FileNotFoundError"

\* C13: an archive of ns.a in its default location, no metadata file of the
\* target: the pass raised
C13_MissingFileRaises ==
    \E i \in LookupPasses : /\ events[i].kind = COLLECTION
                            /\ events[i].name[1] = ColA
                            /\ FileMissing(events[i])
                            /\ events[i].fetches = <<>>
                            /\ events[i].raised
                            /\ events[i].exc = "FileNotFoundError"

\* C13: the cache directory of x.r holds no record of the target: the pass went on
C13_MissingRecordWentOn ==
    \E i \in LookupPasses : /\ events[i].kind = ROLE
                            /\ RecordMissing(events[i])
                            /\ ~events[i].raised


\* ------------------------------------------------------------------------
\* root_install
\* ------------------------------------------------------------------------

InstallableKinds == {PROJECT, COLLECTION, ROLE}

\* root_install past its first step
AfterRootFetch == {"save_install_log", "set_index", "save_index", "move_src", "role_update", "move_dependencies"}

\* C14: root_install on a target whose kind is not PROJECT, COLLECTION or ROLE
\* raises ValueError ('unsupported container type') at once: no fetch is
\* issued, nothing is written to the file system, no index is built, the
\* object is left as it was, and no later step of root_install is reached.
C14_UnsupportedKindRaisesFirst ==
    [][/\ (pc = "root_install" /\ self.target_type \notin InstallableKinds) =>
              /\ pc' = "clean_tmp_dir"
              /\ exc' = "ValueError"
              /\ fetches' = fetches
              /\ fs' = fs
              /\ self' = self
       /\ pc' \in AfterRootFetch => self'.target_type \in InstallableKinds]_vars

\* C14: prepare_dir on a playbook ended with the ValueError of root_install,
\* nothing fetched, no index built, nothing at the destination
C14_PlaybookRaised ==
    /\ pc = "raised"
    /\ exc = "ValueError"
    /\ self.target_type = PLAYBOOK
    /\ args.root_install
    /\ fetches = <<>>
    /\ self.index = None
    /\ self.install_log = None
    /\ ~Exists(fs, self.target_path_mappings["src"])


\* ------------------------------------------------------------------------
\* move_src on its own: called with any source and destination on a small
\* tree.  ops holds the calls made, each with the file system before and after.
\* ------------------------------------------------------------------------

MaxMoves == 2

MoveTree ==
    [dirs |-> {<<"/", "s">>, <<"/", "s", "/", "sub">>, <<"/", "d">>},
     files |-> {<<"/", "s", "/", "f">>, <<"/", "s", "/", "sub", "/", "g">>, <<"/", "plain">>},
     meta |-> (PathJoin(<<"/", "s">>, download_metadata_file) :> JsonDump(Collections(<<>>)))]

MoveSources == {<<>>, <<"/", "s">>, <<"/", "s", "/", "sub">>, <<"/", "nowhere">>, <<"/", "plain">>}

MoveDestinations ==
    {<<>>, <<"/", "d">>, <<"/", "d", "/", ".", ".", "/", "e">>, <<"/", "d", "/", "a", ".", ".", "b">>,
     <<"/", "new">>, <<"/", "plain">>}

MoveInit ==
    /\ self = NewPreparator([type |-> COLLECTION, name |-> ColA, version |-> <<>>, dependency_dir |-> <<>>], FALSE)
    /\ fs = MoveTree
    /\ declared = NoDependencies
    /\ pc = "move"
    /\ args = NoArgs
    /\ dependencies = NoDependencies
    /\ idx = 1
    /\ frame = NoFrame
    /\ exc = ""
    /\ fetches = <<>>
    /\ events = <<>>
    /\ returned = <<>>
    /\ calls = 0
    /\ ops = <<>>
    /\ lookups = <<>>

\* self.move_src(src, dst)
MoveSrc(src, dst) ==
    /\ pc = "move"
    /\ Len(ops) < MaxMoves
    /\ LET raised == move_src_raises(fs, src, dst)
           after == IF raised THEN fs ELSE move_src(fs, src, dst)
       IN  /\ fs' = after
           /\ exc' = IF raised THEN "ValueError" ELSE ""
           /\ ops' = Append(ops, [op |-> "move_src", src |-> src, dst |-> dst, raised |-> raised,
                                  before |-> fs, after |-> after])
    /\ UNCHANGED <<self, declared, pc, args, dependencies, idx, frame, fetches, events, returned, calls, lookups>>

MoveNext == \E src \in MoveSources, dst \in MoveDestinations : MoveSrc(src, dst)

MoveSpec == MoveInit /\ [][MoveNext]_vars

\* the arguments move_src is stated to refuse
BadSource(m) == m.src = <<>> \/ m.src \notin m.before.dirs
BadDestination(m) == m.dst = <<>> \/ \E k \in 1..(Len(m.dst) - 1) : m.dst[k] = "." /\ m.dst[k + 1] = "."

\* every entry below src in f, seen from dst
Moved(f, src, dst) ==
    {dst \o SubSeq(q, Len(src) + 1, Len(q)) : q \in {e \in Entries(f) : Below(src, e)}}

\* C15: move_src raises, copying nothing, exactly when the source is empty,
\* missing or no directory, or the destination is empty or contains '..';
\* otherwise it copies: what lies below the source is then below a
\* destination that is a directory, and nothing else changes.
C15_MoveSrcChecksFirst ==
    \A i \in 1..Len(ops) :
        LET m == ops[i]
        IN  /\ m.raised <=> (BadSource(m) \/ BadDestination(m))
            /\ m.raised => m.after = m.before
            /\ (~m.raised /\ IsDir(m.before, m.dst)) =>
                   /\ Moved(m.before, m.src, m.dst) \subseteq Entries(m.after)
                   /\ Entries(m.after) = Entries(m.before) \cup Moved(m.before, m.src, m.dst)

\* C15: a call with a destination holding '..' raised and left everything in
\* place, and a call with a good source and destination copied a file
C15_RefusedThenCopied ==
    /\ Len(ops) = 2
    /\ ops[1].src = <<"/", "s">>
    /\ ops[1].dst = <<"/", "d", "/", ".", ".", "/", "e">>
    /\ ops[1].raised
    /\ fs # MoveTree
    /\ ~ops[2].raised
    /\ <<"/", "d", "/", "sub", "/", "g">> \in fs.files


\* the caller's index location, and the install log in the staging directory
IndexLocation == self.target_path_mappings["index"]
InstallLog == PathJoin(TmpDirName, <<"install", ".", "log">>)

\* C16: a root install writes the install log and the index file if and only
\* if do_save is set; the step that saves the index writes nothing but the
\* index file (and the directory it lies in), and root_install goes on to the
\* copy into the destination.
C16_LogAndIndexIffRequested ==
    [][/\ pc = "save_install_log" => (IsFile(fs', InstallLog) <=> self.do_save)
       /\ pc = "save_index" =>
              /\ pc' = "move_src"
              /\ IsFile(fs', IndexLocation) <=> self.do_save
              /\ Entries(fs') \ Entries(fs) \subseteq {IndexLocation} \cup Ancestors(DirName(IndexLocation))]_vars

\* C16, the part that holds: the install log is written if and only if
\* do_save is set.  Without do_save no index file is written and root_install
\* goes on to the copy; with do_save the step that saves the index raises
\* AttributeError, writes nothing, and the copy is not reached.
C16_LogIffRequested ==
    [][/\ pc = "save_install_log" => (IsFile(fs', InstallLog) <=> self.do_save)
       /\ pc = "save_index" =>
              /\ fs' = fs
              /\ ~IsFile(fs', IndexLocation)
              /\ IF self.do_save
                 THEN pc' = "clean_tmp_dir" /\ exc' = "AttributeError"
                 ELSE pc' = "move_src"]_vars

\* C16: do_save set, the index built, and prepare_dir ended with the
\* AttributeError: no index file, nothing at the destination
C16_SaveIndexRaised ==
    /\ pc = "raised"
    /\ exc = "AttributeError"
    /\ self.do_save
    /\ self.index # None
    /\ self.install_log # None
    /\ ~Exists(fs, IndexLocation)
    /\ ~Exists(fs, self.target_path_mappings["src"])


\* ------------------------------------------------------------------------
\* The log parsers on their own: extract_collections_metadata and
\* extract_roles_metadata called on empty logs and on logs of one or two
\* lines or blocks; the archive of ansible.posix and the role directories are
\* on disk, the archive of ns.a is not.  ops holds the
\* calls made, each with its log and what it gave.
\* ------------------------------------------------------------------------

MaxParses == 2

ParseDir == <<"/", "dl">>

PosixArchive == <<"ansible", "-", "posix", "-", "1", ".", "4", ".", "0">> \o dot_tar_gz

ArchiveUrls ==
    { <<"https:", "/", "/", "example", "/", "download", "/">> \o PosixArchive,
      <<"https:", "/", "/", "my", "-", "galaxy", "/", "download", "/">> \o PosixArchive,
      <<"https:", "/", "/", "example", "/", "download", "/">> \o ArchiveName(ColA, V1) }

DownloadLine(what, dest) == <<"Downloading", " ">> \o what \o <<" ", "to", " ">> \o dest

CollectionLines ==
    {DownloadLine(u, <<"/", "tmp", "/", "x">>) : u \in ArchiveUrls}
        \cup {DownloadLine(<<"collection", " ", "'community.rabbitmq:1.2.3'">>, ParseDir)}

CollectionLogs ==
    {<<>>} \cup {<<a>> : a \in CollectionLines} \cup {<<a, b>> : a \in CollectionLines, b \in CollectionLines}

RoleUrlY ==
    <<"https:", "/", "/", "github", ".", "com", "/", "x", "/", "y", "/", "archive", "/", "1", ".", "0", ".", "3">>
        \o dot_tar_gz
RoleUrlR ==
    <<"https:", "/", "/", "github", ".", "com", "/", "x", "/", "r", "/", "archive", "/", "2", ".", "0">>
        \o dot_tar_gz
RoleDirY == <<"/", "tmp", "/", "role-test", "/", "x", ".", "y">>
RoleDirR == <<"/", "tmp", "/", "role-test", "/", "x", ".", "r">>

SentinelLine(url) == downloading_role_from \o url
ExtractingLine(name, dir) == <<"-", " ", "extracting", " ">> \o name \o <<" ", "to", " ">> \o dir

RoleBlocks ==
    { <<SentinelLine(RoleUrlY), ExtractingLine(<<"x", ".", "y">>, RoleDirY)>>,
      <<SentinelLine(RoleUrlR), ExtractingLine(RoleR, RoleDirR)>>,
      <<<<"-", " ", "x", ".", "y", " ", "was", " ", "installed", " ", "successfully">>>>,
      <<SentinelLine(RoleUrlY)>> }

RoleLogs == {<<>>} \cup RoleBlocks \cup {a \o b : a \in RoleBlocks, b \in RoleBlocks}

ParseFs ==
    [dirs |-> Ancestors(ParseDir) \cup Ancestors(RoleDirY) \cup Ancestors(RoleDirR),
     files |-> {ParseDir \o <<"/">> \o PosixArchive},
     meta |-> <<>>]

ParseInit ==
    /\ self = NewPreparator([type |-> COLLECTION, name |-> ColA, version |-> <<>>, dependency_dir |-> <<>>], FALSE)
    /\ fs = ParseFs
    /\ declared = NoDependencies
    /\ pc = "parse"
    /\ args = NoArgs
    /\ dependencies = NoDependencies
    /\ idx = 1
    /\ frame = NoFrame
    /\ exc = ""
    /\ fetches = <<>>
    /\ events = <<>>
    /\ returned = <<>>
    /\ calls = 0
    /\ ops = <<>>
    /\ lookups = <<>>

ParseUnchanged ==
    UNCHANGED <<self, declared, pc, args, dependencies, idx, frame, exc, fetches, events, returned, calls, lookups>>

\* self.extract_collections_metadata(log_message, ParseDir)
ExtractCollectionsMetadata(log_message) ==
    /\ pc = "parse"
    /\ Len(ops) < MaxParses
    /\ LET e == extract_collections_metadata(fs, log_message, ParseDir)
       IN  /\ fs' = e.fs
           /\ ops' = Append(ops, [op |-> "extract_collections", log |-> log_message, raised |-> e.raised,
                                  list |-> IF e.raised THEN <<>> ELSE e.list, before |-> fs])
    /\ ParseUnchanged

\* self.extract_roles_metadata(log_message)
ExtractRolesMetadata(log_message) ==
    /\ pc = "parse"
    /\ Len(ops) < MaxParses
    /\ LET e == extract_roles_metadata(fs, log_message)
       IN  ops' = Append(ops, [op |-> "extract_roles", log |-> log_message, raised |-> e.raised,
                               list |-> e.list, before |-> fs])
    /\ fs' = fs
    /\ ParseUnchanged

ParseNext ==
    \/ \E log_message \in CollectionLogs : ExtractCollectionsMetadata(log_message)
    \/ \E log_message \in RoleLogs : ExtractRolesMetadata(log_message)

ParseSpec == ParseInit /\ [][ParseNext]_vars


\* a line 'Downloading <url> to ...' whose url ends with the archive suffix, and its url
ArchiveLine(line) == \E u \in ArchiveUrls : StartsWith(line, <<"Downloading", " ">> \o u \o <<" ", "to">>)
UrlOf(line) == CHOOSE u \in ArchiveUrls : StartsWith(line, <<"Downloading", " ">> \o u \o <<" ", "to">>)

\* s without the archive suffix at its end
WithoutSuffix(s) == IF EndsWith(s, dot_tar_gz) THEN SubSeq(s, 1, Len(s) - Len(dot_tar_gz)) ELSE s

\* the last segment of a url, and its hyphen-delimited tokens
FileNameOf(url) == Last(Split(url, "/"))
FileTokens(url) == Split(FileNameOf(url), "-")

\* the archives of the lines 'Downloading <url> to ...' of a call are on disk
OnDisk(op) ==
    \A k \in 1..Len(op.log) :
        ArchiveLine(op.log[k]) => Exists(op.before, ParseDir \o <<"/">> \o FileNameOf(UrlOf(op.log[k])))

\* a url with no hyphen before its filename
PlainUrl(url) == \A k \in 1..(Len(url) - Len(FileNameOf(url))) : url[k] # "-"

\* the calls of a parser
Parses(op) == {i \in 1..Len(ops) : ops[i].op = op}

\* C17: for every line 'Downloading <url> to ...' whose url ends with the
\* archive suffix and whose archive is on disk, extract_collections_metadata
\* gives one record, in the order of the lines: its name is the first two
\* hyphen-delimited tokens of the url's filename joined by a dot, its version
\* the text between the last hyphen and '.tar.gz', its path
\* <download_dir>/<filename>; whatever hyphens the url has elsewhere.
C17_NameFromFilename ==
    \A i \in Parses("extract_collections") :
        LET lines == SelectSeq(ops[i].log, ArchiveLine)
        IN  OnDisk(ops[i]) =>
            /\ ~ops[i].raised
            /\ Len(ops[i].list) = Len(lines)
            /\ \A k \in 1..Len(lines) :
                  LET url == UrlOf(lines[k])
                      rec == ops[i].list[k]
                  IN  /\ rec.download_url = url
                      /\ rec.name = FileTokens(url)[1] \o <<".">> \o FileTokens(url)[2]
                      /\ rec.version = WithoutSuffix(Last(FileTokens(url)))
                      /\ rec.download_src_path = ParseDir \o <<"/">> \o FileNameOf(url)

\* C17, the part that holds: one record per such line, with the version and
\* the path as stated; the name is as stated when the url has no hyphen
\* before its filename, and otherwise is made of the first two
\* hyphen-delimited tokens of the whole url.
C17_NameFromUrlTokens ==
    \A i \in Parses("extract_collections") :
        LET lines == SelectSeq(ops[i].log, ArchiveLine)
        IN  OnDisk(ops[i]) =>
            /\ ~ops[i].raised
            /\ Len(ops[i].list) = Len(lines)
            /\ \A k \in 1..Len(lines) :
                  LET url == UrlOf(lines[k])
                      rec == ops[i].list[k]
                  IN  /\ rec.download_url = url
                      /\ rec.version = WithoutSuffix(Last(FileTokens(url)))
                      /\ rec.download_src_path = ParseDir \o <<"/">> \o FileNameOf(url)
                      /\ PlainUrl(url) => rec.name = FileTokens(url)[1] \o <<".">> \o FileTokens(url)[2]
                      /\ ~PlainUrl(url) =>
                            rec.name = Last(Split(Split(url, "-")[1], "/")) \o <<".">> \o Split(url, "-")[2]

\* C17: the line of the spec's example gave ansible.posix, 1.4.0
C17_ExampleLine ==
    \E i \in Parses("extract_collections") :
        /\ ops[i].log = <<DownloadLine(<<"https:", "/", "/", "example", "/", "download", "/">> \o PosixArchive,
                                       <<"/", "tmp", "/", "x">>)>>
        /\ Len(ops[i].list) = 1
        /\ ops[i].list[1].name = <<"ansible", ".", "posix">>
        /\ ops[i].list[1].version = <<"1", ".", "4", ".", "0">>

\* C17: the same archive served by my-galaxy gave the name my.galaxy/download/ansible
C17_HyphenInHost ==
    \E i \in Parses("extract_collections") :
        /\ Len(ops[i].log) = 1
        /\ ArchiveLine(ops[i].log[1])
        /\ ~PlainUrl(UrlOf(ops[i].log[1]))
        /\ Len(ops[i].list) = 1
        /\ ops[i].list[1].name = <<"my", ".", "galaxy", "/", "download", "/", "ansible">>
        /\ ops[i].list[1].version = <<"1", ".", "4", ".", "0">>


\* the sentinel lines of a role log, and the k-th of them
Sentinels(log) == {i \in 1..Len(log) : StartsWith(log[i], downloading_role_from)}
Kth(S, k) == CHOOSE i \in S : Cardinality({j \in S : j < i}) = k - 1

\* every sentinel line is followed by a line whose last token is a path on disk
WellFormed(log, f) ==
    \A i \in Sentinels(log) : i < Len(log) /\ Exists(f, Last(Split(log[i + 1], " ")))

C19_AppendOnly ==
    [][LET old == self.dependency_dirs
           new == self'.dependency_dirs
       IN  IF pc \in {"collections", "roles"} /\ pc' # "raised"
           THEN /\ Len(new) = Len(old) + 1
                /\ SubSeq(new, 1, Len(old)) = old
                /\ new[Len(new)].name = (IF pc = "collections" THEN ColName(Cols[idx]) ELSE RoleDeps[idx].name)
           ELSE new = old]_vars

\* C19: two dependencies resolved in different ways: the descriptor of the
\* first is in the list as its pass made it, the second behind it
C19_FirstKeptBehindSecond ==
    /\ pc = "return"
    /\ Len(self.dependency_dirs) = 2
    /\ Len(events) = 2
    /\ self.dependency_dirs[1] = events[1].dep
    /\ self.dependency_dirs[2] = events[2].dep
    /\ self.dependency_dirs[1].metadata # self.dependency_dirs[2].metadata
    /\ events[2].fetches # <<>>


\* ------------------------------------------------------------------------
\* The cache, filled by a miss
\* ------------------------------------------------------------------------

\* the passes with caching enabled that found no record of their dependency
\* in the cache, fetched, and left one there
FilledByMiss ==
    {i \in Named : /\ args.cache_enabled
                   /\ events[i].fetches # <<>>
                   /\ CacheRecords(events[i].before, events[i].kind, events[i].name[1]) = {}
                   /\ CacheRecords(events[i].after, events[i].kind, events[i].name[1]) # {}}

\* the descriptor names a place in the cache: as its cache path, as the path
\* of its source, or as its directory
RecordsCachePath(dep) ==
    \/ Below(CacheDir, dep.metadata.cache_dir)
    \/ Below(CacheDir, dep.metadata.download_src_path)
    \/ Below(CacheDir, dep.dir)

\* the later passes over the dependency of pass i
LaterPasses(i) ==
    {j \in Named : j > i /\ events[j].kind = events[i].kind /\ events[j].name = events[i].name}

\* C20: with caching enabled, a pass that misses the cache and whose fetch
\* leaves a record of the dependency in the cache appends a descriptor that
\* records the cache path, and every later pass over the same dependency with
\* the same cache directory issues no fetch.
C20_MissFillsCache ==
    \A i \in FilledByMiss :
        /\ ~events[i].raised
        /\ RecordsCachePath(events[i].dep)
        /\ \A j \in LaterPasses(i) : events[j].fetches = <<>>

\* C20, the part that holds: such a pass does not raise and every later pass
\* over the same dependency issues no fetch; the descriptor of a collection
\* carries the archive in the cache as its cache path.
C20_MissThenHit ==
    \A i \in FilledByMiss :
        /\ ~events[i].raised
        /\ events[i].kind = COLLECTION =>
              \E rec \in CacheRecords(events[i].after, COLLECTION, events[i].name[1]) :
                  events[i].dep.metadata.cache_dir = rec.download_src_path
        /\ \A j \in LaterPasses(i) : events[j].fetches = <<>>

\* C20: the role x.r was installed into the cache and recorded there, its
\* descriptor names no place in the cache, and the next call fetched nothing for it
C20_RoleMissRecordsNothing ==
    \E i \in FilledByMiss :
        /\ events[i].kind = ROLE
        /\ events[i].name[1] = RoleR
        /\ ~events[i].raised
        /\ ~RecordsCachePath(events[i].dep)
        /\ events[i].dep.metadata.cache_dir = <<>>
        /\ \E j \in LaterPasses(i) : events[j].call = 2 /\ events[j].fetches = <<>>

\* C20: the collection ns.a was fetched into the cache, and the next call found it there
C20_CollectionMissThenHit ==
    \E i \in FilledByMiss :
        /\ events[i].kind = COLLECTION
        /\ RecordsCachePath(events[i].dep)
        /\ \E j \in LaterPasses(i) : events[j].call = 2 /\ events[j].fetches = <<>> /\ ~events[j].raised


\* ------------------------------------------------------------------------
\* A cache hit: what it copies, and where
\* ------------------------------------------------------------------------

\* what f holds below the cache directory
CachePart(f) ==
    [dirs  |-> {q \in f.dirs : Below(CacheDir, q)},
     files |-> {q \in f.files : Below(CacheDir, q)},
     meta  |-> [q \in {m \in DOMAIN f.meta : Below(CacheDir, m)} |-> f.meta[q]]]

\* the files f holds below d
FilesBelow(f, d) == {q \in f.files \cup DOMAIN f.meta : Below(d, q)}

\* the passes that took the cache branch, found their dependency in the
\* cache and appended a descriptor
HitPasses == {i \in CacheHits : events[i].branch = "cache" /\ events[i].fetches = <<>> /\ ~events[i].raised}

\* C21: a cache hit leaves the cache directory as it was, and for a role (no
\* tool is run, the content is copied) the dependency's own sub-directory
\* holds files after the pass.
C21_HitMaterializes ==
    \A i \in HitPasses :
        /\ CachePart(events[i].after) = CachePart(events[i].before)
        /\ events[i].kind = ROLE => FilesBelow(events[i].after, events[i].dep.dir) # {}

\* C21, the part that holds: a cache hit takes nothing out of the cache; the
\* hit of a collection leaves the cache as it was and changes nothing outside
\* the collection's directory but the directories on the way to it; the hit
\* of a role puts no file into the role's sub-directory.
C21_HitKeepsCache ==
    \A i \in HitPasses :
        LET e == events[i]
        IN  /\ CachePart(e.before).dirs \subseteq CachePart(e.after).dirs
            /\ CachePart(e.before).files \subseteq CachePart(e.after).files
            /\ \A q \in DOMAIN CachePart(e.before).meta :
                  q \in DOMAIN e.after.meta /\ e.after.meta[q] = e.before.meta[q]
            /\ e.kind = COLLECTION =>
                  /\ CachePart(e.after) = CachePart(e.before)
                  /\ \A q \in FilesBelow(e.after, root_dir) \ FilesBelow(e.before, root_dir) : Below(e.dep.dir, q)
            /\ e.kind = ROLE =>
                  FilesBelow(e.after, e.dep.dir) = FilesBelow(e.before, e.dep.dir)

\* C21: the role x.r was found in a cache that holds its files, and after the
\* pass its sub-directory exists and holds none of them
C21_RoleHitCopiesNothing ==
    \E i \in HitPasses :
        /\ events[i].kind = ROLE
        /\ events[i].name[1] = RoleR
        /\ FilesBelow(events[i].before, PathJoin4(CacheDir, <<"roles">>, <<"src">>, RoleR)) # {}
        /\ events[i].dep.dir = DefaultSubDir(ROLE, RoleR)
        /\ IsDir(events[i].after, events[i].dep.dir)
        /\ FilesBelow(events[i].after, events[i].dep.dir) = {}

\* C21: the collection ns.a was found in the cache and installed from it
C21_CollectionHitInstalled ==
    \E i \in HitPasses :
        /\ events[i].kind = COLLECTION
        /\ FilesBelow(events[i].before, events[i].dep.dir) = {}
        /\ FilesBelow(events[i].after, events[i].dep.dir) # {}
        /\ CachePart(events[i].after) = CachePart(events[i].before)


\* ------------------------------------------------------------------------
\* The name in a descriptor's metadata
\* ------------------------------------------------------------------------

\* C22: every descriptor of a returned list carries a metadata record named
\* as the descriptor itself.
C22_MetadataNamedAsDescriptor ==
    \A k \in 1..Len(returned) :
        \A j \in 1..Len(returned[k]) :
            returned[k][j].metadata.name = returned[k][j].name

\* C22, the part that holds: the metadata of a descriptor is named as the
\* descriptor, or, for a role resolved with caching enabled, as the target
\* of the preparator.
C22_NamedAsDescriptorOrTarget ==
    \A k \in 1..Len(returned) :
        \A j \in 1..Len(returned[k]) :
            \/ returned[k][j].metadata.name = returned[k][j].name
            \/ /\ returned[k][j].metadata.type = ROLE
               /\ returned[k][j].metadata.name = self.target_name
               /\ \E i \in 1..Len(events) :
                     events[i].branch = "cache" /\ events[i].kind = ROLE /\ events[i].dep = returned[k][j]

\* C22: the role x.r was found in the cache, the cache holds a record of the
\* target x.t beside it, and the descriptor of x.r was returned with the
\* record of x.t for its metadata
C22_RoleNamedAsTarget ==
    \E k \in 1..Len(returned) :
        \E j \in 1..Len(returned[k]) :
            /\ returned[k][j].name = RoleR
            /\ returned[k][j].metadata.name = RoleT
            /\ self.target_name = RoleT

\* C22: a collection found in the default location was returned under its own name
C22_StoredRecordNamedAsDescriptor ==
    \E k \in 1..Len(returned) :
        \E j \in 1..Len(returned[k]) :
            /\ returned[k][j].name = ColA
            /\ returned[k][j].metadata.name = ColA
            /\ returned[k][j].metadata.download_src_path # <<>>


\* ------------------------------------------------------------------------
\* The records of the metadata files, over time
\* ------------------------------------------------------------------------

\* the names of the records of a type that the metadata file m holds in f
RecordNames(f, m, type) ==
    LET metadata_list == PyGet(JsonLoad(f.meta[m]), ListKey(type), <<>>)
    IN  {DownloadMetadataFrom(metadata_list[i]).name : i \in 1..Len(metadata_list)}

\* the metadata files of the download location and of the cache
StoredMetadataFiles(f) ==
    {m \in DOMAIN f.meta : Below(PathJoin(root_dir, <<"archives">>), m) \/ Below(CacheDir, m)}

\* every record of f is still there, by name, in g
RecordsKept(f, g) ==
    \A m \in StoredMetadataFiles(f) :
        /\ m \in DOMAIN g.meta
        /\ \A type \in {COLLECTION, ROLE} : RecordNames(f, m, type) \subseteq RecordNames(g, m, type)

\* C23, for prepare_dir: no step of prepare_dir takes a record out of a
\* metadata file of the download location or of the cache.
C23_PrepareDirKeepsRecords ==
    [][RecordsKept(fs, fs')]_vars


\* C23, the part that holds: no step removes a metadata file, and a step
\* that takes a record out of one has issued a fetch and written the file
\* anew from what the fetch logged
C23_RecordsGoOnlyByRefetch ==
    [][/\ \A m \in StoredMetadataFiles(fs) : m \in DOMAIN fs'.meta
       /\ ~RecordsKept(fs, fs') => Len(fetches') = Len(fetches) + 1]_vars

\* C23: the first call recorded the role x.r in the download location, the
\* second call fetched it again, the fetch logged nothing, and the file was
\* written anew without the record
C23_RecordLostOnRefetch ==
    \E i \in Named : \E j \in Named :
        /\ i < j
        /\ events[i].name = events[j].name
        /\ events[i].kind = ROLE /\ events[j].kind = ROLE
        /\ ~events[j].raised
        /\ events[j].fetches # <<>>
        /\ \E m \in StoredMetadataFiles(events[i].after) :
              /\ events[i].name[1] \in RecordNames(events[i].after, m, ROLE)
              /\ m \in DOMAIN events[j].before.meta
              /\ events[i].name[1] \in RecordNames(events[j].before, m, ROLE)
              /\ m \in DOMAIN events[j].after.meta
              /\ events[i].name[1] \notin RecordNames(events[j].after, m, ROLE)


\* ------------------------------------------------------------------------
\* The order of the steps of root_install
\* ------------------------------------------------------------------------

\* the staging directory is there
Staged == self.tmp_install_dir # None /\ IsDir(fs, self.tmp_install_dir[1])

\* what is staged below <tmp>/src is at the same place below the destination
StagedCopied ==
    /\ IsDir(fs, frame.dst_src_dir)
    /\ \A q \in fs.dirs \cup fs.files \cup DOMAIN fs.meta :
          Below(TmpSrcDir(self), q) =>
              LET c == CopyPath(TmpSrcDir(self), frame.dst_src_dir, q)
              IN  c \in fs.dirs \cup fs.files \cup DOMAIN fs.meta

\* the fetch of root_install is behind: a fetch was issued, and for a
\* collection or a role the metadata file was written
Fetched ==
    /\ fetches # <<>>
    /\ frame.dst_src_dir # <<>>
    /\ self.target_type \in {COLLECTION, ROLE} => frame.metadata_file \in DOMAIN fs.meta

\* C24: in a root install that has not raised, the copy into the destination
\* starts with the fetch done, the metadata persisted (collection and role),
\* the index built and the staging directory there; after the copy the
\* destination exists and holds what was staged, the staging directory still
\* there; the staging directory is released after that, and is gone when
\* prepare_dir goes on to the dependencies.
C24_RootInstallOrder ==
    /\ pc \in {"save_install_log", "set_index"} => Fetched /\ Staged
    /\ pc \in {"save_index", "move_src"} => Fetched /\ Staged /\ self.index # None
    /\ (pc \in {"role_update", "move_dependencies"} \/ (pc = "clean_tmp_dir" /\ exc = "")) =>
          Fetched /\ Staged /\ self.index # None /\ StagedCopied
    /\ (pc = "find_dependency" /\ frame.dst_src_dir # <<>>) =>
          /\ self.tmp_install_dir = None
          /\ ~Exists(fs, TmpDirName)
          /\ self.index # None
          /\ IsDir(fs, frame.dst_src_dir)

\* C24: a collection was fetched and staged, copied into a destination that
\* was not there before, and the staging directory is about to be released
C24_CopiedBeforeRelease ==
    /\ pc = "clean_tmp_dir"
    /\ exc = ""
    /\ self.target_type = COLLECTION
    /\ Staged
    /\ \E q \in fs.files : Below(TmpSrcDir(self), q) /\ q # TmpSrcDir(self)
                           /\ CopyPath(TmpSrcDir(self), frame.dst_src_dir, q) \in fs.files


\* ------------------------------------------------------------------------
\* find_target_metadata, on the metadata store
\* ------------------------------------------------------------------------

\* the lookups made so far
FindOps == {k \in 1..Len(ops) : ops[k].op = "find"}

\* the list of the type of lookup op in the file it read
ListRead(op) == PyGet(JsonLoad(op.before.meta[StoreFile]), ListKey(op.type), <<>>)

\* the places in the list of the records named as the target
MatchesIn(list, target) == {i \in 1..Len(list) : DownloadMetadataFrom(list[i]).name = target}

\* what the lookup op is to give on a file that is there
FirstNamed(op) ==
    IF op.type \in {COLLECTION, ROLE} /\ MatchesIn(ListRead(op), op.target) # {}
    THEN LET first == CHOOSE i \in MatchesIn(ListRead(op), op.target) :
                          \A j \in MatchesIn(ListRead(op), op.target) : i <= j
         IN  Some(DownloadMetadataFrom(ListRead(op)[first]))
    ELSE None

C25_UnknownTypeAbsent ==
    \E k \in FindOps :
        /\ ops[k].type = PROJECT
        /\ StoreFile \in DOMAIN ops[k].before.meta
        /\ MatchesIn(PyGet(JsonLoad(ops[k].before.meta[StoreFile]), "roles", <<>>), ops[k].target) # {}
        /\ ops[k].md = None
        /\ ~ops[k].raised

\* C25: a lookup in a file that is not there raised
C25_MissingFileRaised ==
    \E k \in FindOps : StoreFile \notin DOMAIN ops[k].before.meta /\ ops[k].raised


\* ------------------------------------------------------------------------
\* The log parsers: how many records, and when they raise
\* ------------------------------------------------------------------------

\* the lines of a log that a parser matches
MatchedLines(op) ==
    IF op.op = "extract_collections" THEN SelectSeq(op.log, ArchiveLine)
    ELSE SelectSeq(op.log, LAMBDA line : StartsWith(line, downloading_role_from))

\* the calls of the parsers
AllParses == Parses("extract_collections") \cup Parses("extract_roles")

\* C26: a parser never raises and gives one record per matched line, none
\* for an empty log or a log without a match.
C26_OneRecordPerMatchNoRaise ==
    \A i \in AllParses :
        /\ ~ops[i].raised
        /\ Len(ops[i].list) = Len(MatchedLines(ops[i]))

\* C26, the part that holds: a parser that does not raise gives one record
\* per matched line; the collection parser raises exactly when a matched
\* archive is not on disk, the role parser exactly when a sentinel line is
\* the last line or the line after it ends with no path on disk
C26_OneRecordPerMatchUnlessRaised ==
    \A i \in AllParses :
        /\ ~ops[i].raised => Len(ops[i].list) = Len(MatchedLines(ops[i]))
        /\ ops[i].op = "extract_collections" => (ops[i].raised <=> ~OnDisk(ops[i]))
        /\ ops[i].op = "extract_roles" => (ops[i].raised <=> ~WellFormed(ops[i].log, ops[i].before))

\* C26: the role parser raised on a log that ends with a sentinel line
C26_RoleParserRaised ==
    \E i \in Parses("extract_roles") :
        /\ ops[i].raised
        /\ ops[i].log # <<>>
        /\ StartsWith(ops[i].log[Len(ops[i].log)], downloading_role_from)

\* C26: both parsers gave the empty list for the empty log
C26_EmptyLogsEmptyLists ==
    /\ \E i \in Parses("extract_collections") : ops[i].log = <<>> /\ ~ops[i].raised /\ ops[i].list = <<>>
    /\ \E i \in Parses("extract_roles") : ops[i].log = <<>> /\ ~ops[i].raised /\ ops[i].list = <<>>

\* C26: a log without a match gave the empty list
C26_NoMatchEmptyList ==
    \E i \in Parses("extract_collections") :
        ops[i].log # <<>> /\ MatchedLines(ops[i]) = <<>> /\ ~ops[i].raised /\ ops[i].list = <<>>

\* the matched lines of a call whose archive is on disk
LinesOnDisk(op) ==
    SelectSeq(op.log, LAMBDA line :
        ArchiveLine(line) /\ Exists(op.before, ParseDir \o <<"/">> \o FileNameOf(UrlOf(line))))

\* C27: extract_collections_metadata does not raise when a matched archive is
\* not on disk, and gives the records of the matched lines whose archive is.
C27_MissingArchiveSkipped ==
    \A i \in Parses("extract_collections") :
        /\ ~ops[i].raised
        /\ Len(ops[i].list) = Len(LinesOnDisk(ops[i]))
        /\ \A k \in 1..Len(ops[i].list) : ops[i].list[k].download_url = UrlOf(LinesOnDisk(ops[i])[k])

\* C27, the part that holds: when every matched archive is on disk the
\* records are those of the matched lines; when one is not, the call raises
C27_MissingArchiveRaises ==
    \A i \in Parses("extract_collections") :
        IF OnDisk(ops[i])
        THEN /\ ~ops[i].raised
             /\ Len(ops[i].list) = Len(LinesOnDisk(ops[i]))
             /\ \A k \in 1..Len(ops[i].list) : ops[i].list[k].download_url = UrlOf(LinesOnDisk(ops[i])[k])
        ELSE ops[i].raised

\* C27: the log names the archive of ansible.posix, which is on disk, and
\* then the archive of ns.a, which is not: the call raised and gave no record
C27_OneMissingAllLost ==
    \E i \in Parses("extract_collections") :
        /\ Len(ops[i].log) = 2
        /\ Len(LinesOnDisk(ops[i])) = 1
        /\ ArchiveLine(ops[i].log[1]) /\ ArchiveLine(ops[i].log[2])
        /\ LinesOnDisk(ops[i])[1] = ops[i].log[1]
        /\ ops[i].raised
        /\ ops[i].list = <<>>


\* ------------------------------------------------------------------------
\* prepare_root_dir on a source that is installed already
\* ------------------------------------------------------------------------

\* C28: with is_src_installed, prepare_root_dir issues no fetch, looks
\* nothing up, makes no staging directory and leaves the preparator (its
\* metadata and target fields among the rest) and the file system as they
\* were, whatever the target.
C28_InstalledSourceUntouched ==
    [][(pc = "prepare_root_dir" /\ args.is_src_installed) =>
          /\ pc' = "find_dependency"
          /\ self' = self
          /\ fs' = fs
          /\ fetches' = fetches
          /\ lookups' = lookups
          /\ frame' = frame
          /\ exc' = exc
          /\ ~Exists(fs', TmpDirName)]_vars

\* C28: a collection to be fetched from the registry, root_install asked
\* for, the source flagged as installed: prepare_root_dir is over, nothing
\* was fetched, looked up or staged, the metadata is as constructed
C28_FlaggedInstalledSkipped ==
    /\ pc = "find_dependency"
    /\ args.is_src_installed
    /\ args.root_install
    /\ self.target_type = COLLECTION
    /\ ~is_local_path(self.target_name)
    /\ fetches = <<>>
    /\ lookups = <<>>
    /\ self.tmp_install_dir = None
    /\ self.metadata = Some(DownloadMetadata)
    /\ self.index = None


\* ------------------------------------------------------------------------
\* update_metadata: what it leaves alone
\* ------------------------------------------------------------------------

\* the updates made so far on a file that was there
UpdateOps == {k \in 1..Len(ops) : ops[k].op = "update" /\ StoreFile \in DOMAIN ops[k].before.meta}

\* the file system after call k
FsAfter(k) == IF k < Len(ops) THEN ops[k + 1].before ELSE fs

\* the list of a type in the metadata file of f
StoredList(f, type) == PyGet(JsonLoad(f.meta[StoreFile]), ListKey(type), <<>>)

\* the update of call k has a record to work on
HasTarget(k) ==
    /\ ops[k].type \in {COLLECTION, ROLE}
    /\ MatchesIn(StoredList(ops[k].before, ops[k].type), ops[k].target) # {}

\* C29: update_metadata leaves every record of another name, and every
\* record of the other type, as it was in the file; when no record has the
\* target's name, or the type is neither collection nor role, the file is
\* after the call what it was before.
C29_OnlyTargetChanged ==
    \A k \in UpdateOps :
        /\ StoreFile \in DOMAIN FsAfter(k).meta
        /\ \A type \in {COLLECTION, ROLE} :
              LET old == StoredList(ops[k].before, type)
                  new == StoredList(FsAfter(k), type)
              IN  /\ Len(new) = Len(old)
                  /\ \A i \in 1..Len(old) :
                        (type # ops[k].type \/ i \notin MatchesIn(old, ops[k].target)) => new[i] = old[i]
        /\ ~HasTarget(k) => FsAfter(k).meta[StoreFile] = ops[k].before.meta[StoreFile]
        /\ FsAfter(k).dirs = ops[k].before.dirs
        /\ FsAfter(k).files = ops[k].before.files

\* C29: the file held ns.a and ns.b, the version of ns.a was updated: the
\* record of ns.a has the new version and the record of ns.b is as it was
C29_NeighbourKept ==
    \E k \in UpdateOps :
        LET old == StoredList(ops[k].before, COLLECTION)
            new == StoredList(FsAfter(k), COLLECTION)
        IN  /\ ops[k].type = COLLECTION
            /\ ops[k].key = "version"
            /\ ~ops[k].raised
            /\ Len(old) = 2
            /\ DownloadMetadataFrom(old[1]).name = ColA
            /\ DownloadMetadataFrom(old[2]).name = ColB
            /\ DownloadMetadataFrom(old[1]).version = V1
            /\ DownloadMetadataFrom(new[1]).version = V2
            /\ new[2] = old[2]

\* C29: an update of the type PROJECT, and an update of a role in a file
\* that holds collections only, left the file as it was
C29_NoTargetFileKept ==
    /\ \E k \in UpdateOps : ops[k].type = PROJECT /\ ~ops[k].raised
                            /\ FsAfter(k).meta[StoreFile] = ops[k].before.meta[StoreFile]
    /\ \E k \in UpdateOps : ops[k].type = ROLE /\ ~HasTarget(k) /\ ~ops[k].raised
                            /\ StoredList(ops[k].before, COLLECTION) # <<>>
                            /\ FsAfter(k).meta[StoreFile] = ops[k].before.meta[StoreFile]

====
